---------------------------- MODULE Spec2Model ----------------------------
(***************************************************************************)
(* Taiwan 16-tile Mahjong engine: the GameSession state machine            *)
(* (engine/game_session.py) with the tile, wall, action-validator and      *)
(* win-validator helpers it calls, and the GameManager claim resolution    *)
(* (server/game_manager.py).                                               *)
(*                                                                         *)
(* Tiles are integers.  A number tile "{v}{s}" is 10*suit + v with suit    *)
(* m=0, p=1, s=2 (the value _tile_sort_key gives it); the honors           *)
(* E,S,W,N,C,F,B are 30..36 (their _HONOR_ORDER value); the flowers        *)
(* f1..f8 are 41..48.  Python's None is the integer -1 (the string "None"  *)
(* for last_action).  Python lists are sequences in list order.            *)
(***************************************************************************)
EXTENDS Integers, Sequences, FiniteSets, TLC

None == -1

NoAction == "None"

Seats == 0..3

(***************************************************************************)
(* engine/tiles.py                                                         *)
(***************************************************************************)
SUITS == {0, 1, 2}

WINDS == {30, 31, 32, 33}

DRAGONS == {34, 35, 36}

HONORS == WINDS \cup DRAGONS

FLOWERS == 41..48

NumberTiles == {10 * s + v : s \in SUITS, v \in 1..9}

is_number_tile(tile) == tile \in NumberTiles

is_flower_tile(tile) == tile \in FLOWERS

tile_suit(tile) == tile \div 10

tile_value(tile) == tile % 10

MkTile(v, suit) == 10 * suit + v

\* build_full_deck() + build_flower_set() as a bag: copies of each tile.
DeckCount(tile) ==
  IF tile \in NumberTiles \cup HONORS THEN 4
  ELSE IF tile \in FLOWERS THEN 1 ELSE 0

AllTiles == NumberTiles \cup HONORS \cup FLOWERS

(***************************************************************************)
(* Python list helpers                                                     *)
(***************************************************************************)
Count(seq, x) == Cardinality({i \in DOMAIN seq : seq[i] = x})

Contains(seq, x) == \E i \in DOMAIN seq : seq[i] = x

ToSet(seq) == {seq[i] : i \in DOMAIN seq}

\* list.remove(x): drops the first occurrence (callers check Contains, the
\* ValueError case, themselves).
list_remove(seq, x) ==
  LET i == CHOOSE k \in DOMAIN seq :
             seq[k] = x /\ \A j \in 1..(k - 1) : seq[j] # x
  IN SubSeq(seq, 1, i - 1) \o SubSeq(seq, i + 1, Len(seq))

RECURSIVE RemoveN(_, _, _)
RemoveN(seq, x, n) ==
  IF n = 0 THEN seq ELSE RemoveN(list_remove(seq, x), x, n - 1)

\* sum(f[x] for x in D)
RECURSIVE Sum(_, _)
Sum(f, D) ==
  IF D = {} THEN 0
  ELSE LET x == CHOOSE y \in D : TRUE IN f[x] + Sum(f, D \ {x})

Min(a, b) == IF a <= b THEN a ELSE b

(***************************************************************************)
(* engine/win_validator.py                                                 *)
(***************************************************************************)
tile_sort_key(tile) ==
  IF is_number_tile(tile) THEN tile_suit(tile) * 10 + tile_value(tile)
  ELSE IF tile \in HONORS THEN tile
  ELSE 99

\* sorted(hand, key=_tile_sort_key)
sorted(seq) == SortSeq(seq, LAMBDA a, b : tile_sort_key(a) < tile_sort_key(b))

\* _decompose_sets: the result is {} for None, else {found_sets}.
RECURSIVE decompose_sets(_, _, _)
decompose_sets(tiles, sets_needed, found_sets) ==
  IF sets_needed = 0 THEN (IF Len(tiles) = 0 THEN {found_sets} ELSE {})
  ELSE IF tiles = <<>> THEN {}
  ELSE
    LET first == tiles[1]
        viaTriplet ==
          IF Count(tiles, first) >= 3
          THEN decompose_sets(RemoveN(tiles, first, 3), sets_needed - 1,
                              Append(found_sets, <<first, first, first>>))
          ELSE {}
        t2 == MkTile(tile_value(first) + 1, tile_suit(first))
        t3 == MkTile(tile_value(first) + 2, tile_suit(first))
        viaSequence ==
          IF is_number_tile(first) /\ tile_value(first) <= 7
             /\ Contains(tiles, t2) /\ Contains(tiles, t3)
          THEN decompose_sets(
                 list_remove(list_remove(list_remove(tiles, first), t2), t3),
                 sets_needed - 1, Append(found_sets, <<first, t2, t3>>))
          ELSE {}
    IN IF viaTriplet # {} THEN viaTriplet ELSE viaSequence

\* The pair loop of _find_decomposition giving up after the first pair.
RECURSIVE find_pair_first_only(_, _, _, _)
find_pair_first_only(tiles, sets_needed, i, seen_pairs) ==
  IF i > Len(tiles) THEN {}
  ELSE IF i + 1 <= Len(tiles) /\ tiles[i + 1] = tiles[i]
       THEN LET remaining == SubSeq(tiles, 1, i - 1) \o SubSeq(tiles, i + 2, Len(tiles))
            IN {[sets |-> r, pair |-> <<tiles[i], tiles[i]>>] :
                  r \in decompose_sets(remaining, sets_needed, <<>>)}
  ELSE find_pair_first_only(tiles, sets_needed, i + 1, seen_pairs)

\* The pair loop of _find_decomposition from index i on.
RECURSIVE find_pair_from(_, _, _, _)
find_pair_from(tiles, sets_needed, i, seen_pairs) ==
  IF i > Len(tiles) THEN {}
  ELSE IF tiles[i] \in seen_pairs
       THEN find_pair_from(tiles, sets_needed, i + 1, seen_pairs)
  ELSE IF i + 1 <= Len(tiles) /\ tiles[i + 1] = tiles[i]
       THEN LET remaining == SubSeq(tiles, 1, i - 1) \o SubSeq(tiles, i + 2, Len(tiles))
                result == decompose_sets(remaining, sets_needed, <<>>)
            IN IF result # {}
               THEN {[sets |-> r, pair |-> <<tiles[i], tiles[i]>>] : r \in result}
               ELSE find_pair_from(tiles, sets_needed, i + 1,
                                   seen_pairs \cup {tiles[i]})
  ELSE find_pair_from(tiles, sets_needed, i + 1, seen_pairs)

\* _find_decomposition: {} for None, else {[sets, pair]}.
find_decomposition(tiles, sets_needed, found_sets) ==
  IF sets_needed = 0
  THEN (IF Len(tiles) = 2 /\ tiles[1] = tiles[2]
        THEN {[sets |-> found_sets, pair |-> tiles]} ELSE {})
  ELSE IF Len(tiles) # sets_needed * 3 + 2 THEN {}
  ELSE find_pair_from(tiles, sets_needed, 1, {})

decompose_hand(hand, melds) ==
  find_decomposition(sorted(hand), 5 - Len(melds), <<>>)

is_standard_win(hand, melds) == decompose_hand(hand, melds) # {}

is_bajian_guohai(flowers) == Len(flowers) = 8 /\ ToSet(flowers) = FLOWERS

\* is_winning_hand with is_flower_steal = False: "None" or the win type.
is_winning_hand(hand, melds, flowers, win_tile) ==
  LET flower_set == IF win_tile \in FLOWERS THEN Append(flowers, win_tile)
                    ELSE flowers
  IN IF is_bajian_guohai(flower_set) THEN "bajian_guohai"
     ELSE IF is_standard_win(sorted(Append(hand, win_tile)), melds) THEN "standard"
     ELSE "None"

(***************************************************************************)
(* engine/actions.py                                                       *)
(***************************************************************************)
\* One offset of the loop in get_chi_combinations: the run in which the
\* discard is the (offset+1)-th tile, as <<>> or <<full_seq>>.
chi_combo_unheld(hand, discard, offset) ==
  LET suit == tile_suit(discard)
      val == tile_value(discard)
      seq_vals == [i \in 1..3 |-> val - offset + (i - 1)]
  IN IF \E i \in 1..3 : seq_vals[i] < 1 \/ seq_vals[i] > 9 THEN <<>>
     ELSE << [i \in 1..3 |-> MkTile(seq_vals[i], suit)] >>

chi_combo_at(hand, discard, offset) ==
  LET suit == tile_suit(discard)
      val == tile_value(discard)
      seq_vals == [i \in 1..3 |-> val - offset + (i - 1)]
      needed == SelectSeq(seq_vals, LAMBDA v : v # val)
  IN IF \E i \in 1..3 : seq_vals[i] < 1 \/ seq_vals[i] > 9 THEN <<>>
     ELSE IF \A k \in 1..Len(needed) : Count(hand, MkTile(needed[k], suit)) >= 1
          THEN << [i \in 1..3 |-> MkTile(seq_vals[i], suit)] >>
          ELSE <<>>

get_chi_combinations(hand, discard) ==
  IF ~is_number_tile(discard) THEN <<>>
  ELSE chi_combo_at(hand, discard, 0) \o chi_combo_at(hand, discard, 1)
         \o chi_combo_at(hand, discard, 2)

validate_chi(hand, discard) == Len(get_chi_combinations(hand, discard)) > 0

validate_pong(hand, discard) == Count(hand, discard) >= 2

validate_open_kong(hand, discard) == Count(hand, discard) >= 3

validate_added_kong(melds, drawn_tile) ==
  \E i \in DOMAIN melds :
    melds[i].type = "pong" /\ Contains(melds[i].tiles, drawn_tile)

validate_concealed_kong(hand, tile) == Count(hand, tile) >= 4

(***************************************************************************)
(* engine/wall.py                                                          *)
(***************************************************************************)
RESERVED_COUNT == 16

\* draw_from_wall reading wall[0] without popping it.
draw_from_wall_unpopped(wall) == [tile |-> Head(wall), rest |-> wall]

\* list.pop(0) on a non-empty wall: the tile drawn and the rest of the wall.
draw_from_wall(wall) == [tile |-> Head(wall), rest |-> Tail(wall)]

\* draw_from_back raises IndexError on an empty back wall (tile = None).
draw_from_back(back) ==
  IF back = <<>> THEN [tile |-> None, rest |-> back]
  ELSE [tile |-> Head(back), rest |-> Tail(back)]

(***************************************************************************)
(* engine/game_session.py: the state                                       *)
(***************************************************************************)
VARIABLES
  players,            \* GameState.players: seat -> [hand, melds, flowers, discards]
  wall,               \* GameState.wall (head = next draw)
  wall_back,          \* GameState.wall_back
  discard_pool,       \* GameState.discard_pool
  current_player,     \* GameState.current_player
  last_discard,       \* GameState.last_discard
  last_action,        \* GameState.last_action
  phase,              \* GameState.phase
  sub_phase,          \* GameSession._sub_phase
  pending_discard,    \* GameSession._pending_discard
  pending_discarder,  \* GameSession._pending_discarder
  just_drew,          \* GameSession._just_drew
  after_kong,         \* GameSession._after_kong
  passed_players,     \* GameSession._passed_players
  nsteps,             \* number of step() calls since start_hand
  horizon,            \* exploration stops when nsteps reaches it
  last_step,          \* the Action object given to the latest step() call
  exc,                \* exception the latest step() call raised ("none" if it returned)
  human_seat,         \* GameManager.human_seat
  mode,               \* GameManager.mode
  last_event,         \* the latest entry of GameManager.events
  replaced,           \* flower_replacement: how many players of `order` are done
  deck,               \* start_hand: its local list deck (<<>> once it has returned)
  args,               \* arguments of the library call under study (NoCall outside one)
  result              \* what that call returned (NoCall until it has)

sessionVars ==
  << players, wall, wall_back, discard_pool, current_player, last_discard,
     last_action, phase, sub_phase, pending_discard, pending_discarder,
     just_drew, after_kong, passed_players >>

vars ==
  << players, wall, wall_back, discard_pool, current_player, last_discard,
     last_action, phase, sub_phase, pending_discard, pending_discarder,
     just_drew, after_kong, passed_players, nsteps, horizon, last_step, exc,
     human_seat, mode, last_event, replaced, deck, args, result >>

dealer_index == 0

\* No library call is in progress / the call has not returned yet.
NoCall == [fn |-> "none"]

\* The session as one value: GameState plus the GameSession bookkeeping,
\* plus exc, the exception a handler run on it has raised.
S ==
  [players |-> players, wall |-> wall, wall_back |-> wall_back,
   discard_pool |-> discard_pool, current_player |-> current_player,
   last_discard |-> last_discard, last_action |-> last_action, phase |-> phase,
   sub_phase |-> sub_phase, pending_discard |-> pending_discard,
   pending_discarder |-> pending_discarder, just_drew |-> just_drew,
   after_kong |-> after_kong, passed_players |-> passed_players, exc |-> "none"]

\* Action(type, tile, combo, player_idx); combo None is <<>>.
Action(type, tile, combo, player_idx) ==
  [type |-> type, tile |-> tile, combo |-> combo, player_idx |-> player_idx]

Raise(s, e) == [s EXCEPT !.exc = e]

(***************************************************************************)
(* GameSession.get_legal_actions and _get_claim_actions.  The lists are    *)
(* modelled as sets: the order of the active-turn list follows Python's    *)
(* set iteration order, which the program does not fix.                    *)
(***************************************************************************)
ClaimTypes == {"win", "open_kong", "pong", "chi", "pass"}

KongTypes == {"open_kong", "added_kong", "concealed_kong"}

TurnTypes == {"draw", "win", "concealed_kong", "added_kong", "discard"}

\* _get_claim_actions without the early return for a player who has passed.
claim_actions_of_passed_too(s, player_idx, type) ==
  LET player == s.players[player_idx]
      discard == s.pending_discard
      discarder == s.pending_discarder
      next_player == (discarder + 1) % 4
  IN CASE type = "win" ->
            IF is_winning_hand(player.hand, player.melds, player.flowers, discard) # "None"
            THEN {Action("win", discard, <<>>, player_idx)} ELSE {}
       [] type = "open_kong" ->
            IF validate_open_kong(player.hand, discard)
            THEN {Action("open_kong", discard, <<>>, player_idx)} ELSE {}
       [] type = "pong" ->
            IF validate_pong(player.hand, discard)
            THEN {Action("pong", discard, <<>>, player_idx)} ELSE {}
       [] type = "chi" ->
            IF player_idx = next_player /\ validate_chi(player.hand, discard)
            THEN LET combos == get_chi_combinations(player.hand, discard)
                 IN {Action("chi", discard, combos[i], player_idx) : i \in DOMAIN combos}
            ELSE {}
       [] type = "pass" -> {Action("pass", None, <<>>, player_idx)}
       [] OTHER -> {}

\* The actions of one type that _get_claim_actions appends.
claim_actions_of(s, player_idx, type) ==
  IF player_idx \in s.passed_players THEN {}
  ELSE
    LET player == s.players[player_idx]
        discard == s.pending_discard
        discarder == s.pending_discarder
        next_player == (discarder + 1) % 4
    IN CASE type = "win" ->
              IF is_winning_hand(player.hand, player.melds, player.flowers, discard) # "None"
              THEN {Action("win", discard, <<>>, player_idx)} ELSE {}
         [] type = "open_kong" ->
              IF validate_open_kong(player.hand, discard)
              THEN {Action("open_kong", discard, <<>>, player_idx)} ELSE {}
         [] type = "pong" ->
              IF validate_pong(player.hand, discard)
              THEN {Action("pong", discard, <<>>, player_idx)} ELSE {}
         [] type = "chi" ->
              IF player_idx = next_player /\ validate_chi(player.hand, discard)
              THEN LET combos == get_chi_combinations(player.hand, discard)
                   IN {Action("chi", discard, combos[i], player_idx) : i \in DOMAIN combos}
              ELSE {}
         [] type = "pass" -> {Action("pass", None, <<>>, player_idx)}
         [] OTHER -> {}

get_claim_actions(s, player_idx) ==
  UNION {claim_actions_of(s, player_idx, type) : type \in ClaimTypes}

\* The active-turn part of get_legal_actions asking for a draw whenever the
\* hand has at most 16 tiles, whether or not a tile has just been drawn.
turn_actions_of_by_hand_size(s, player_idx, type) ==
  LET player == s.players[player_idx]
  IN IF Len(player.hand) <= 16
     THEN (IF type = "draw" THEN {Action("draw", None, <<>>, None)} ELSE {})
     ELSE IF type = "discard"
          THEN {Action("discard", t, <<>>, None) : t \in ToSet(player.hand)}
     ELSE {}

\* The actions of one type that the active-turn part of get_legal_actions
\* returns for the current player.
turn_actions_of(s, player_idx, type) ==
  LET player == s.players[player_idx]
      held == ToSet(player.hand)
  IN IF Len(player.hand) <= 16 /\ ~s.just_drew
     THEN (IF type = "draw" THEN {Action("draw", None, <<>>, None)} ELSE {})
     ELSE
       CASE type = "win" ->
              \* the loop stops at the first tile of set(hand) that tests as a win
              IF s.just_drew
              THEN {Action("win", t, <<>>, None) :
                      t \in {u \in held :
                               is_winning_hand(list_remove(player.hand, u), player.melds,
                                               player.flowers, u) # "None"}}
              ELSE {}
         [] type = "concealed_kong" ->
              {Action("concealed_kong", t, <<>>, None) :
                 t \in {u \in held : validate_concealed_kong(player.hand, u)}}
         [] type = "added_kong" ->
              {Action("added_kong", t, <<>>, None) :
                 t \in {u \in held : validate_added_kong(player.melds, u)}}
         [] type = "discard" -> {Action("discard", t, <<>>, None) : t \in held}
         [] OTHER -> {}

\* get_legal_actions without the early return for the discarder.
legal_actions_of_any_claimer(s, player_idx, type) ==
  IF s.phase # "play" THEN {}
  ELSE IF s.sub_phase = "claim" /\ s.pending_discard # None
       THEN claim_actions_of(s, player_idx, type)
  ELSE IF player_idx # s.current_player THEN {}
  ELSE turn_actions_of(s, player_idx, type)

\* get_legal_actions restricted to one action type.
legal_actions_of(s, player_idx, type) ==
  IF s.phase # "play" THEN {}
  ELSE IF s.sub_phase = "claim" /\ s.pending_discard # None
       THEN (IF player_idx = s.pending_discarder THEN {}
             ELSE claim_actions_of(s, player_idx, type))
  ELSE IF player_idx # s.current_player THEN {}
  ELSE turn_actions_of(s, player_idx, type)

get_legal_actions(s, player_idx) ==
  UNION {legal_actions_of(s, player_idx, type) : type \in ClaimTypes \cup TurnTypes}

\* The union of the four players' legal-action lists.
LegalActions(s) == UNION {get_legal_actions(s, p) : p \in Seats}

(***************************************************************************)
(* GameSession action handlers, as functions from session to session       *)
(***************************************************************************)
\* _draw_replacement ending the hand when the back wall is empty, without
\* the fall-through to the draw wall.
RECURSIVE draw_replacement_back_only(_, _)
draw_replacement_back_only(s, p) ==
  IF s.wall_back = <<>> THEN [s EXCEPT !.phase = "draw"]
  ELSE
    LET d == draw_from_back(s.wall_back)
        s1 == [s EXCEPT !.wall_back = d.rest]
    IN IF is_flower_tile(d.tile)
       THEN draw_replacement_back_only(
              [s1 EXCEPT !.players[p].flowers = Append(@, d.tile)], p)
       ELSE [s1 EXCEPT !.players[p].hand = Append(@, d.tile),
                       !.just_drew = TRUE,
                       !.after_kong = TRUE,
                       !.sub_phase = "active_turn",
                       !.last_action = "replacement_draw"]

RECURSIVE draw_replacement(_, _)
draw_replacement(s, p) ==
  IF s.wall_back = <<>> /\ s.wall = <<>> THEN [s EXCEPT !.phase = "draw"]
  ELSE
    LET d == IF s.wall_back = <<>> THEN draw_from_wall(s.wall)
             ELSE draw_from_back(s.wall_back)
        s1 == IF s.wall_back = <<>> THEN [s EXCEPT !.wall = d.rest]
              ELSE [s EXCEPT !.wall_back = d.rest]
    IN IF is_flower_tile(d.tile)
       THEN draw_replacement(
              [s1 EXCEPT !.players[p].flowers = Append(@, d.tile)], p)
       ELSE [s1 EXCEPT !.players[p].hand = Append(@, d.tile),
                       !.just_drew = TRUE,
                       !.after_kong = TRUE,
                       !.sub_phase = "active_turn",
                       !.last_action = "replacement_draw"]

\* _do_draw returning on an empty wall without ending the hand.
do_draw_no_exhaustion(s) ==
  IF s.wall = <<>> THEN s
  ELSE
    LET p == s.current_player
        d == draw_from_wall(s.wall)
        s1 == [s EXCEPT !.wall = d.rest]
    IN IF is_flower_tile(d.tile)
       THEN draw_replacement(
              [s1 EXCEPT !.players[p].flowers = Append(@, d.tile)], p)
       ELSE [s1 EXCEPT !.players[p].hand = Append(@, d.tile),
                       !.just_drew = TRUE,
                       !.after_kong = FALSE,
                       !.sub_phase = "active_turn",
                       !.last_action = "draw"]

\* _do_draw keeping a drawn flower in the hand like any other tile.
do_draw_keeps_flower(s) ==
  IF s.wall = <<>> THEN [s EXCEPT !.phase = "draw"]
  ELSE
    LET p == s.current_player
        d == draw_from_wall(s.wall)
        s1 == [s EXCEPT !.wall = d.rest]
    IN [s1 EXCEPT !.players[p].hand = Append(@, d.tile),
                  !.just_drew = TRUE,
                  !.after_kong = FALSE,
                  !.sub_phase = "active_turn",
                  !.last_action = "draw"]

do_draw(s) ==
  IF s.wall = <<>> THEN [s EXCEPT !.phase = "draw"]
  ELSE
    LET p == s.current_player
        d == draw_from_wall(s.wall)
        s1 == [s EXCEPT !.wall = d.rest]
    IN IF is_flower_tile(d.tile)
       THEN draw_replacement(
              [s1 EXCEPT !.players[p].flowers = Append(@, d.tile)], p)
       ELSE [s1 EXCEPT !.players[p].hand = Append(@, d.tile),
                       !.just_drew = TRUE,
                       !.after_kong = FALSE,
                       !.sub_phase = "active_turn",
                       !.last_action = "draw"]

\* do_discard without the append to the discard pool.
do_discard_unpooled(s, action) ==
  LET p == s.current_player
      tile == action.tile
  IN IF tile = None THEN Raise(s, "AssertionError")
     ELSE IF ~Contains(s.players[p].hand, tile) THEN Raise(s, "ValueError")
     ELSE [s EXCEPT !.players[p].hand = list_remove(@, tile),
                    !.players[p].discards = Append(@, tile),
                    !.last_discard = tile,
                    !.last_action = "discard",
                    !.pending_discard = tile,
                    !.pending_discarder = p,
                    !.just_drew = FALSE,
                    !.after_kong = FALSE,
                    !.sub_phase = "claim"]

do_discard(s, action) ==
  LET p == s.current_player
      tile == action.tile
  IN IF tile = None THEN Raise(s, "AssertionError")
     ELSE IF ~Contains(s.players[p].hand, tile) THEN Raise(s, "ValueError")
     ELSE [s EXCEPT !.players[p].hand = list_remove(@, tile),
                    !.players[p].discards = Append(@, tile),
                    !.discard_pool = Append(@, tile),
                    !.last_discard = tile,
                    !.last_action = "discard",
                    !.pending_discard = tile,
                    !.pending_discarder = p,
                    !.just_drew = FALSE,
                    !.after_kong = FALSE,
                    !.sub_phase = "claim"]

\* The loop "for t in combo: if t != discard: claimer.hand.remove(t)" from
\* index i on; ok is FALSE when a remove raised ValueError.
RECURSIVE remove_combo(_, _, _, _)
remove_combo(hand, combo, discard, i) ==
  IF i > Len(combo) THEN [hand |-> hand, ok |-> TRUE]
  ELSE IF combo[i] = discard THEN remove_combo(hand, combo, discard, i + 1)
  ELSE IF ~Contains(hand, combo[i]) THEN [hand |-> hand, ok |-> FALSE]
  ELSE remove_combo(list_remove(hand, combo[i]), combo, discard, i + 1)

\* _find_claimer: the first seat after the discarder holding min_count
\* copies, None where the code raises RuntimeError.
find_claimer(s, discard, min_count) ==
  LET discarder == s.pending_discarder
      holds(offset) ==
        Count(s.players[(discarder + offset) % 4].hand, discard) >= min_count
  IN IF holds(1) THEN (discarder + 1) % 4
     ELSE IF holds(2) THEN (discarder + 2) % 4
     ELSE IF holds(3) THEN (discarder + 3) % 4
     ELSE None

\* _do_chi building the meld without from_player.
do_chi_unrecorded(s, action) ==
  IF action.tile = None \/ action.combo = <<>> \/ s.pending_discarder = None
  THEN Raise(s, "AssertionError")
  ELSE
    LET discarder == s.pending_discarder
        claimer_idx == (discarder + 1) % 4
        r == remove_combo(s.players[claimer_idx].hand, action.combo, action.tile, 1)
        s1 == [s EXCEPT !.players[claimer_idx].hand = r.hand]
        meld == [type |-> "chi", tiles |-> action.combo, from_player |-> None]
    IN IF ~r.ok THEN Raise(s1, "ValueError")
       ELSE [s1 EXCEPT !.players[claimer_idx].melds = Append(@, meld),
                       !.current_player = claimer_idx,
                       !.last_action = "chi",
                       !.pending_discard = None,
                       !.pending_discarder = None,
                       !.passed_players = {},
                       !.just_drew = TRUE,
                       !.sub_phase = "active_turn"]

\* _do_chi leaving the just-drew flag unset after the claim.
do_chi_owes_draw(s, action) ==
  IF action.tile = None \/ action.combo = <<>> \/ s.pending_discarder = None
  THEN Raise(s, "AssertionError")
  ELSE
    LET discarder == s.pending_discarder
        claimer_idx == (discarder + 1) % 4
        r == remove_combo(s.players[claimer_idx].hand, action.combo, action.tile, 1)
        s1 == [s EXCEPT !.players[claimer_idx].hand = r.hand]
        meld == [type |-> "chi", tiles |-> action.combo, from_player |-> discarder]
    IN IF ~r.ok THEN Raise(s1, "ValueError")
       ELSE [s1 EXCEPT !.players[claimer_idx].melds = Append(@, meld),
                       !.current_player = claimer_idx,
                       !.last_action = "chi",
                       !.pending_discard = None,
                       !.pending_discarder = None,
                       !.passed_players = {},
                       !.just_drew = FALSE,
                       !.sub_phase = "active_turn"]

do_chi(s, action) ==
  IF action.tile = None \/ action.combo = <<>> \/ s.pending_discarder = None
  THEN Raise(s, "AssertionError")
  ELSE
    LET discarder == s.pending_discarder
        claimer_idx == (discarder + 1) % 4
        r == remove_combo(s.players[claimer_idx].hand, action.combo, action.tile, 1)
        s1 == [s EXCEPT !.players[claimer_idx].hand = r.hand]
        meld == [type |-> "chi", tiles |-> action.combo, from_player |-> discarder]
    IN IF ~r.ok THEN Raise(s1, "ValueError")
       ELSE [s1 EXCEPT !.players[claimer_idx].melds = Append(@, meld),
                       !.current_player = claimer_idx,
                       !.last_action = "chi",
                       !.pending_discard = None,
                       !.pending_discarder = None,
                       !.passed_players = {},
                       !.just_drew = TRUE,
                       !.sub_phase = "active_turn"]

\* do_pong taking one tile instead of two from the claimer's hand.
do_pong_one_tile(s, action) ==
  IF s.pending_discard = None \/ s.pending_discarder = None
  THEN Raise(s, "AssertionError")
  ELSE
    LET discard == s.pending_discard
        discarder == s.pending_discarder
        claimer_idx == find_claimer(s, discard, 2)
        meld == [type |-> "pong", tiles |-> <<discard, discard, discard>>,
                 from_player |-> discarder]
    IN IF claimer_idx = None THEN Raise(s, "RuntimeError")
       ELSE [s EXCEPT !.players[claimer_idx].hand = RemoveN(@, discard, 1),
                      !.players[claimer_idx].melds = Append(@, meld),
                      !.current_player = claimer_idx,
                      !.last_action = "pong",
                      !.pending_discard = None,
                      !.pending_discarder = None,
                      !.passed_players = {},
                      !.just_drew = TRUE,
                      !.sub_phase = "active_turn"]

\* _do_pong without "self._passed_players.clear()".
do_pong_passes_kept(s, action) ==
  IF s.pending_discard = None \/ s.pending_discarder = None
  THEN Raise(s, "AssertionError")
  ELSE
    LET discard == s.pending_discard
        claimer_idx == find_claimer(s, discard, 2)
        meld == [type |-> "pong", tiles |-> <<discard, discard, discard>>,
                 from_player |-> s.pending_discarder]
    IN IF claimer_idx = None THEN Raise(s, "RuntimeError")
       ELSE [s EXCEPT !.players[claimer_idx].hand = RemoveN(@, discard, 2),
                      !.players[claimer_idx].melds = Append(@, meld),
                      !.current_player = claimer_idx,
                      !.last_action = "pong",
                      !.pending_discard = None,
                      !.pending_discarder = None,
                      !.just_drew = TRUE,
                      !.sub_phase = "active_turn"]

do_pong(s, action) ==
  IF s.pending_discard = None \/ s.pending_discarder = None
  THEN Raise(s, "AssertionError")
  ELSE
    LET discard == s.pending_discard
        discarder == s.pending_discarder
        claimer_idx == find_claimer(s, discard, 2)
        meld == [type |-> "pong", tiles |-> <<discard, discard, discard>>,
                 from_player |-> discarder]
    IN IF claimer_idx = None THEN Raise(s, "RuntimeError")
       ELSE [s EXCEPT !.players[claimer_idx].hand = RemoveN(@, discard, 2),
                      !.players[claimer_idx].melds = Append(@, meld),
                      !.current_player = claimer_idx,
                      !.last_action = "pong",
                      !.pending_discard = None,
                      !.pending_discarder = None,
                      !.passed_players = {},
                      !.just_drew = TRUE,
                      !.sub_phase = "active_turn"]

do_open_kong(s, action) ==
  IF s.pending_discard # None /\ s.pending_discarder # None /\ s.sub_phase = "claim"
  THEN
    LET discard == s.pending_discard
        discarder == s.pending_discarder
        claimer_idx == find_claimer(s, discard, 3)
        meld == [type |-> "open_kong",
                 tiles |-> <<discard, discard, discard, discard>>,
                 from_player |-> discarder]
    IN IF claimer_idx = None THEN Raise(s, "RuntimeError")
       ELSE draw_replacement(
              [s EXCEPT !.players[claimer_idx].hand = RemoveN(@, discard, 3),
                        !.players[claimer_idx].melds = Append(@, meld),
                        !.current_player = claimer_idx,
                        !.last_action = "open_kong",
                        !.pending_discard = None,
                        !.pending_discarder = None,
                        !.passed_players = {},
                        !.just_drew = FALSE,
                        !.sub_phase = "active_turn"],
              claimer_idx)
  ELSE s

\* _do_added_kong rebuilding the upgraded meld without the pong's from_player.
do_added_kong_forgets_source(s, action) ==
  IF action.tile = None THEN Raise(s, "AssertionError")
  ELSE
    LET tile == action.tile
        p == s.current_player
        melds == s.players[p].melds
        matches == {i \in DOMAIN melds :
                      melds[i].type = "pong" /\ Contains(melds[i].tiles, tile)}
        s1 == IF matches = {} THEN s
              ELSE LET i == CHOOSE k \in matches : \A j \in matches : k <= j
                   IN [s EXCEPT !.players[p].melds[i].type = "added_kong",
                                !.players[p].melds[i].tiles = Append(@, tile),
                                !.players[p].melds[i].from_player = None]
    IN IF matches # {} /\ ~Contains(s.players[p].hand, tile)
       THEN Raise(s1, "ValueError")
       ELSE draw_replacement(
              [s1 EXCEPT !.players[p].hand =
                           IF matches = {} THEN @ ELSE list_remove(@, tile),
                         !.last_action = "added_kong",
                         !.just_drew = FALSE,
                         !.sub_phase = "active_turn"],
              p)

do_added_kong(s, action) ==
  IF action.tile = None THEN Raise(s, "AssertionError")
  ELSE
    LET tile == action.tile
        p == s.current_player
        melds == s.players[p].melds
        matches == {i \in DOMAIN melds :
                      melds[i].type = "pong" /\ Contains(melds[i].tiles, tile)}
        \* the first matching pong is upgraded before the tile leaves the hand
        s1 == IF matches = {} THEN s
              ELSE LET i == CHOOSE k \in matches : \A j \in matches : k <= j
                   IN [s EXCEPT !.players[p].melds[i].type = "added_kong",
                                !.players[p].melds[i].tiles = Append(@, tile)]
    IN IF matches # {} /\ ~Contains(s.players[p].hand, tile)
       THEN Raise(s1, "ValueError")
       ELSE draw_replacement(
              [s1 EXCEPT !.players[p].hand =
                           IF matches = {} THEN @ ELSE list_remove(@, tile),
                         !.last_action = "added_kong",
                         !.just_drew = FALSE,
                         !.sub_phase = "active_turn"],
              p)

\* _do_concealed_kong taking only three of the four copies out of the hand.
do_concealed_kong_three(s, action) ==
  IF action.tile = None THEN Raise(s, "AssertionError")
  ELSE
    LET tile == action.tile
        p == s.current_player
        meld == [type |-> "concealed_kong", tiles |-> <<tile, tile, tile, tile>>,
                 from_player |-> None]
    IN draw_replacement(
         [s EXCEPT !.players[p].hand = RemoveN(@, tile, 3),
                   !.players[p].melds = Append(@, meld),
                   !.last_action = "concealed_kong",
                   !.just_drew = FALSE,
                   !.sub_phase = "active_turn"],
         p)

do_concealed_kong(s, action) ==
  IF action.tile = None THEN Raise(s, "AssertionError")
  ELSE
    LET tile == action.tile
        p == s.current_player
        held == Count(s.players[p].hand, tile)
        meld == [type |-> "concealed_kong", tiles |-> <<tile, tile, tile, tile>>,
                 from_player |-> None]
    IN IF held < 4
       THEN \* the copies held are removed before remove() raises
            Raise([s EXCEPT !.players[p].hand = RemoveN(@, tile, held)], "ValueError")
       ELSE draw_replacement(
              [s EXCEPT !.players[p].hand = RemoveN(@, tile, 4),
                        !.players[p].melds = Append(@, meld),
                        !.last_action = "concealed_kong",
                        !.just_drew = FALSE,
                        !.sub_phase = "active_turn"],
              p)

do_win(s, action) == [s EXCEPT !.phase = "win", !.last_action = "win"]

\* _do_pass closing the claim window as soon as two players have passed.
do_pass_two_suffice(s, player_idx) ==
  IF s.pending_discarder = None THEN Raise(s, "AssertionError")
  ELSE
    LET passed == s.passed_players \cup {player_idx}
    IN IF Cardinality(passed) >= 2
       THEN [s EXCEPT !.passed_players = {},
                      !.pending_discard = None,
                      !.pending_discarder = None,
                      !.sub_phase = "active_turn",
                      !.just_drew = FALSE,
                      !.current_player = (s.pending_discarder + 1) % 4,
                      !.last_action = "pass"]
       ELSE [s EXCEPT !.passed_players = passed]

\* _do_pass recording the pass and never closing the claim window.
do_pass_window_left_open(s, player_idx) ==
  IF s.pending_discarder = None THEN Raise(s, "AssertionError")
  ELSE [s EXCEPT !.passed_players = @ \cup {player_idx}]

do_pass(s, player_idx) ==
  IF s.pending_discarder = None THEN Raise(s, "AssertionError")
  ELSE
    LET passed == s.passed_players \cup {player_idx}
        non_discarders == {i \in Seats : i # s.pending_discarder}
    IN IF non_discarders \subseteq passed
       THEN [s EXCEPT !.passed_players = {},
                      !.pending_discard = None,
                      !.pending_discarder = None,
                      !.sub_phase = "active_turn",
                      !.just_drew = FALSE,
                      !.current_player = (s.pending_discarder + 1) % 4,
                      !.last_action = "pass"]
       ELSE [s EXCEPT !.passed_players = passed]

\* step without the early return of a finished hand.
step_after_end(s, action) ==
  CASE action.type = "draw" -> do_draw(s)
    [] action.type = "discard" -> do_discard(s, action)
    [] action.type = "chi" -> do_chi(s, action)
    [] action.type = "pong" -> do_pong(s, action)
    [] action.type = "open_kong" -> do_open_kong(s, action)
    [] action.type = "added_kong" -> do_added_kong(s, action)
    [] action.type = "concealed_kong" -> do_concealed_kong(s, action)
    [] action.type = "win" -> do_win(s, action)
    [] action.type = "pass" ->
         LET waiting == {i \in Seats :
                           i # s.pending_discarder /\ i \notin s.passed_players}
             passer == IF action.player_idx # None THEN action.player_idx
                       ELSE IF waiting # {}
                            THEN CHOOSE i \in waiting : \A j \in waiting : i <= j
                            ELSE None
         IN IF passer # None THEN do_pass(s, passer) ELSE s
    [] OTHER -> s

\* GameSession.step
step(s, action) ==
  IF s.phase # "play" THEN s
  ELSE CASE action.type = "draw" -> do_draw(s)
         [] action.type = "discard" -> do_discard(s, action)
         [] action.type = "chi" -> do_chi(s, action)
         [] action.type = "pong" -> do_pong(s, action)
         [] action.type = "open_kong" -> do_open_kong(s, action)
         [] action.type = "added_kong" -> do_added_kong(s, action)
         [] action.type = "concealed_kong" -> do_concealed_kong(s, action)
         [] action.type = "win" -> do_win(s, action)
         [] action.type = "pass" ->
              LET waiting == {i \in Seats :
                                i # s.pending_discarder /\ i \notin s.passed_players}
                  passer == IF action.player_idx # None THEN action.player_idx
                            ELSE IF waiting # {}
                                 THEN CHOOSE i \in waiting : \A j \in waiting : i <= j
                                 ELSE None
              IN IF passer # None THEN do_pass(s, passer) ELSE s
         [] OTHER -> s

(***************************************************************************)
(* Sessions recorded from the engine.  One deal (a shuffle chosen so that  *)
(* every player is dealt four quads and no flower, flower f1 sits in the   *)
(* back wall and f8 near the end of the draw wall) is played with legal    *)
(* actions only: each player declares four concealed kongs on the first    *)
(* turn, then everybody draws, discards the drawn tile and passes.         *)
(*   StartOfHand  the session as start_hand() leaves it;                   *)
(*   BackWallLow  seat 3 in its first turn, two tiles left in the back     *)
(*                wall, one of them the flower f1;                         *)
(*   WallLow      285 steps in: back wall empty, three tiles in the draw   *)
(*                wall, seat 2 about to draw.                              *)
(***************************************************************************)
StartOfHand ==
  [players |-> <<[hand |-> <<30, 30, 30, 30, 31, 31, 31, 31, 32, 32, 32, 32, 33, 33, 33, 33, 5>>,
          melds |-> <<>>,
          flowers |-> <<>>,
          discards |-> <<>>],
         [hand |-> <<34, 34, 34, 34, 35, 35, 35, 35, 36, 36, 36, 36, 21, 21, 21, 21>>,
          melds |-> <<>>,
          flowers |-> <<>>,
          discards |-> <<>>],
         [hand |-> <<22, 22, 22, 22, 23, 23, 23, 23, 24, 24, 24, 24, 25, 25, 25, 25>>,
          melds |-> <<>>,
          flowers |-> <<>>,
          discards |-> <<>>],
         [hand |-> <<26, 26, 26, 26, 27, 27, 27, 27, 28, 28, 28, 28, 29, 29, 29, 29>>,
          melds |-> <<>>,
          flowers |-> <<>>,
          discards |-> <<>>]>>,
   wall |-> <<4, 5, 3, 9, 11, 15, 6, 14, 3, 42, 19, 4, 7, 13, 13, 17, 16, 43, 14, 3, 1, 19, 7, 4, 8, 44, 17, 19, 8, 19, 2, 16, 7, 45, 14, 1, 16, 7, 15, 6, 17, 46, 12, 12, 2, 1, 6, 14, 17, 47, 15, 8, 2, 15, 2, 1, 16, 11, 3, 8, 18, 48, 12>>,
   wall_back |-> <<5, 5, 12, 9, 6, 13, 13, 9, 18, 18, 18, 9, 4, 11, 41, 11>>,
   discard_pool |-> <<>>,
   current_player |-> 0, dealer_index |-> 0, last_discard |-> None, last_action |-> NoAction, phase |-> "play",
   sub_phase |-> "active_turn", pending_discard |-> None, pending_discarder |-> None,
   just_drew |-> TRUE, after_kong |-> FALSE, passed_players |-> {}, nsteps |-> 0]

BackWallLow ==
  [players |-> <<[hand |-> <<5, 5, 5, 12>>,
          melds |-> <<[type |-> "concealed_kong", tiles |-> <<30, 30, 30, 30>>, from_player |-> None], [type |-> "concealed_kong", tiles |-> <<31, 31, 31, 31>>, from_player |-> None], [type |-> "concealed_kong", tiles |-> <<32, 32, 32, 32>>, from_player |-> None], [type |-> "concealed_kong", tiles |-> <<33, 33, 33, 33>>, from_player |-> None]>>,
          flowers |-> <<>>,
          discards |-> <<9>>],
         [hand |-> <<4, 6, 13, 13>>,
          melds |-> <<[type |-> "concealed_kong", tiles |-> <<34, 34, 34, 34>>, from_player |-> None], [type |-> "concealed_kong", tiles |-> <<35, 35, 35, 35>>, from_player |-> None], [type |-> "concealed_kong", tiles |-> <<36, 36, 36, 36>>, from_player |-> None], [type |-> "concealed_kong", tiles |-> <<21, 21, 21, 21>>, from_player |-> None]>>,
          flowers |-> <<>>,
          discards |-> <<9>>],
         [hand |-> <<5, 18, 18, 18>>,
          melds |-> <<[type |-> "concealed_kong", tiles |-> <<22, 22, 22, 22>>, from_player |-> None], [type |-> "concealed_kong", tiles |-> <<23, 23, 23, 23>>, from_player |-> None], [type |-> "concealed_kong", tiles |-> <<24, 24, 24, 24>>, from_player |-> None], [type |-> "concealed_kong", tiles |-> <<25, 25, 25, 25>>, from_player |-> None]>>,
          flowers |-> <<>>,
          discards |-> <<9>>],
         [hand |-> <<28, 28, 28, 28, 29, 29, 29, 29, 3, 4, 11>>,
          melds |-> <<[type |-> "concealed_kong", tiles |-> <<26, 26, 26, 26>>, from_player |-> None], [type |-> "concealed_kong", tiles |-> <<27, 27, 27, 27>>, from_player |-> None]>>,
          flowers |-> <<>>,
          discards |-> <<>>]>>,
   wall |-> <<9, 11, 15, 6, 14, 3, 42, 19, 4, 7, 13, 13, 17, 16, 43, 14, 3, 1, 19, 7, 4, 8, 44, 17, 19, 8, 19, 2, 16, 7, 45, 14, 1, 16, 7, 15, 6, 17, 46, 12, 12, 2, 1, 6, 14, 17, 47, 15, 8, 2, 15, 2, 1, 16, 11, 3, 8, 18, 48, 12>>,
   wall_back |-> <<41, 11>>,
   discard_pool |-> <<9, 9, 9>>,
   current_player |-> 3, dealer_index |-> 0, last_discard |-> 9, last_action |-> "replacement_draw", phase |-> "play",
   sub_phase |-> "active_turn", pending_discard |-> None, pending_discarder |-> None,
   just_drew |-> TRUE, after_kong |-> TRUE, passed_players |-> {}, nsteps |-> 29]

WallLow ==
  [players |-> <<[hand |-> <<5, 5, 5, 12>>,
          melds |-> <<[type |-> "concealed_kong", tiles |-> <<30, 30, 30, 30>>, from_player |-> None], [type |-> "concealed_kong", tiles |-> <<31, 31, 31, 31>>, from_player |-> None], [type |-> "concealed_kong", tiles |-> <<32, 32, 32, 32>>, from_player |-> None], [type |-> "concealed_kong", tiles |-> <<33, 33, 33, 33>>, from_player |-> None]>>,
          flowers |-> <<43, 47>>,
          discards |-> <<9, 11, 3, 13, 14, 7, 19, 16, 16, 17, 1, 15, 2, 3>>],
         [hand |-> <<13, 13, 4, 6>>,
          melds |-> <<[type |-> "concealed_kong", tiles |-> <<34, 34, 34, 34>>, from_player |-> None], [type |-> "concealed_kong", tiles |-> <<35, 35, 35, 35>>, from_player |-> None], [type |-> "concealed_kong", tiles |-> <<36, 36, 36, 36>>, from_player |-> None], [type |-> "concealed_kong", tiles |-> <<21, 21, 21, 21>>, from_player |-> None]>>,
          flowers |-> <<42, 46>>,
          discards |-> <<9, 15, 19, 13, 3, 4, 8, 7, 7, 12, 6, 8, 1, 8>>],
         [hand |-> <<5, 18, 18, 18>>,
          melds |-> <<[type |-> "concealed_kong", tiles |-> <<22, 22, 22, 22>>, from_player |-> None], [type |-> "concealed_kong", tiles |-> <<23, 23, 23, 23>>, from_player |-> None], [type |-> "concealed_kong", tiles |-> <<24, 24, 24, 24>>, from_player |-> None], [type |-> "concealed_kong", tiles |-> <<25, 25, 25, 25>>, from_player |-> None]>>,
          flowers |-> <<45>>,
          discards |-> <<9, 6, 4, 17, 1, 8, 19, 14, 15, 12, 14, 2, 16>>],
         [hand |-> <<3, 4, 11, 11>>,
          melds |-> <<[type |-> "concealed_kong", tiles |-> <<26, 26, 26, 26>>, from_player |-> None], [type |-> "concealed_kong", tiles |-> <<27, 27, 27, 27>>, from_player |-> None], [type |-> "concealed_kong", tiles |-> <<28, 28, 28, 28>>, from_player |-> None], [type |-> "concealed_kong", tiles |-> <<29, 29, 29, 29>>, from_player |-> None]>>,
          flowers |-> <<41, 44>>,
          discards |-> <<9, 14, 7, 16, 19, 17, 2, 1, 6, 2, 17, 15, 11>>]>>,
   wall |-> <<18, 48, 12>>,
   wall_back |-> <<>>,
   discard_pool |-> <<9, 9, 9, 9, 11, 15, 6, 14, 3, 19, 4, 7, 13, 13, 17, 16, 14, 3, 1, 19, 7, 4, 8, 17, 19, 8, 19, 2, 16, 7, 14, 1, 16, 7, 15, 6, 17, 12, 12, 2, 1, 6, 14, 17, 15, 8, 2, 15, 2, 1, 16, 11, 3, 8>>,
   current_player |-> 2, dealer_index |-> 0, last_discard |-> 8, last_action |-> "pass", phase |-> "play",
   sub_phase |-> "active_turn", pending_discard |-> None, pending_discarder |-> None,
   just_drew |-> FALSE, after_kong |-> FALSE, passed_players |-> {}, nsteps |-> 285]

\* A session recorded from GameManager(mode="inspect").start() on another
\* deal, at the head of an iteration of the _run_ai_turns loop, 327 step()
\* calls in: four tiles in the draw wall, seat 0 about to draw.  Two turns
\* later seat 1 discards 8s, which seats 0 and 2 can both win on.
ManagerLate ==
  [players |-> <<[hand |-> <<27, 27, 26, 26, 13, 28, 13>>,
          melds |-> <<[type |-> "chi", tiles |-> <<1, 2, 3>>, from_player |-> 3], [type |-> "chi", tiles |-> <<21, 22, 23>>, from_player |-> 3], [type |-> "chi", tiles |-> <<7, 8, 9>>, from_player |-> 3]>>,
          flowers |-> <<44>>,
          discards |-> <<31, 35, 11, 11, 1, 12, 5, 2, 5, 15, 3, 16, 3, 7, 18, 29, 35>>],
         [hand |-> <<24, 6, 33, 33, 28, 25, 7>>,
          melds |-> <<[type |-> "pong", tiles |-> <<31, 31, 31>>, from_player |-> 0], [type |-> "chi", tiles |-> <<1, 2, 3>>, from_player |-> 0], [type |-> "chi", tiles |-> <<2, 3, 4>>, from_player |-> 0]>>,
          flowers |-> <<42, 46, 45, 41>>,
          discards |-> <<36, 34, 11, 19, 9, 21, 30, 21, 22, 29, 9, 16, 17, 18, 27, 21, 9>>],
         [hand |-> <<6, 8, 17, 28, 12, 16, 18, 13, 24, 8, 8, 28, 14, 26, 7, 25>>,
          melds |-> <<>>,
          flowers |-> <<43, 47>>,
          discards |-> <<30, 33, 34, 19, 1, 29, 36, 32, 17, 33, 15, 14, 4, 22, 11, 4>>],
         [hand |-> <<14, 5, 5, 23, 23, 25, 14, 26, 23, 12, 12, 13, 24>>,
          melds |-> <<[type |-> "pong", tiles |-> <<34, 34, 34>>, from_player |-> 1]>>,
          flowers |-> <<48>>,
          discards |-> <<36, 35, 1, 19, 30, 21, 9, 6, 15, 22, 15, 35, 19, 27, 31, 24, 29>>]>>,
   wall |-> <<32, 16, 36, 32>>,
   wall_back |-> <<30, 18, 17, 25, 4, 32, 6, 1>>,
   discard_pool |-> <<31, 36, 30, 36, 35, 34, 35, 11, 11, 33, 1, 11, 19, 34, 19, 1, 9, 19, 30, 12, 21, 1, 21, 5, 30, 29, 9, 2, 21, 36, 6, 5, 22, 32, 15, 15, 29, 17, 22, 3, 9, 33, 15, 16, 16, 15, 35, 3, 17, 14, 19, 7, 18, 4, 27, 18, 27, 22, 31, 29, 21, 11, 24, 35, 9, 4, 29>>,
   current_player |-> 0, dealer_index |-> 0, last_discard |-> 29, last_action |-> "pass", phase |-> "play",
   sub_phase |-> "active_turn", pending_discard |-> None, pending_discarder |-> None,
   just_drew |-> FALSE, after_kong |-> FALSE, passed_players |-> {}, nsteps |-> 327]

\* A session recorded from GameManager(human_seat=3, mode="easy") on a third
\* deal, the human playing what RuleBasedAI would, at the head of
\* _handle_claim_phase, 310 step() calls in: seat 2 has discarded 8s, seat 1
\* can pong it and seat 3, the human, can chi it.
ManagerClaim ==
  [players |-> <<[hand |-> <<15, 17, 5, 2, 24, 15, 14, 15, 4, 2, 26, 25, 14>>,
          melds |-> <<[type |-> "pong", tiles |-> <<1, 1, 1>>, from_player |-> 3]>>,
          flowers |-> <<46, 41>>,
          discards |-> <<30, 31, 33, 35, 32, 11, 21, 29, 1, 9, 19, 18, 18, 4, 12>>],
         [hand |-> <<28, 7, 11, 13, 28, 5, 6, 8, 12, 7>>,
          melds |-> <<[type |-> "pong", tiles |-> <<35, 35, 35>>, from_player |-> 2], [type |-> "pong", tiles |-> <<16, 16, 16>>, from_player |-> 3]>>,
          flowers |-> <<44, 47>>,
          discards |-> <<32, 34, 29, 36, 36, 9, 32, 12, 30, 33, 3, 32, 25, 26, 26, 31, 30>>],
         [hand |-> <<2, 22, 15, 17, 5, 8, 14, 5, 16, 17, 17, 8, 2, 23, 23, 24>>,
          melds |-> <<>>,
          flowers |-> <<42, 48, 45>>,
          discards |-> <<33, 35, 11, 3, 18, 34, 34, 19, 21, 3, 6, 25, 29, 13, 18, 26, 28>>],
         [hand |-> <<24, 4, 8, 9, 24, 29, 28, 3, 27, 23, 21, 22, 7>>,
          melds |-> <<[type |-> "pong", tiles |-> <<13, 13, 13>>, from_player |-> 2]>>,
          flowers |-> <<43>>,
          discards |-> <<31, 33, 31, 36, 34, 1, 36, 25, 27, 23, 11, 21, 16, 22, 7>>]>>,
   wall |-> <<12, 19, 4, 30>>,
   wall_back |-> <<22, 6, 14, 27, 19, 27, 6, 9>>,
   discard_pool |-> <<30, 32, 33, 31, 31, 34, 35, 29, 11, 33, 33, 36, 3, 31, 35, 36, 18, 36, 32, 9, 34, 34, 11, 32, 34, 1, 21, 12, 19, 36, 29, 30, 21, 25, 1, 33, 3, 27, 9, 3, 6, 23, 19, 32, 25, 11, 18, 25, 29, 21, 18, 26, 13, 16, 26, 18, 22, 4, 31, 26, 7, 12, 30, 28>>,
   current_player |-> 2, dealer_index |-> 0, last_discard |-> 28, last_action |-> "discard", phase |-> "play",
   sub_phase |-> "claim", pending_discard |-> 28, pending_discarder |-> 2,
   just_drew |-> FALSE, after_kong |-> FALSE, passed_players |-> {}, nsteps |-> 310]

\* The recorded player tuples are indexed from 1; seats are 0..3.
BySeat(snap) == [snap EXCEPT !.players = [i \in Seats |-> snap.players[i + 1]]]

\* Exploration depth: how many step() calls are followed from StartOfHand
\* and from BackWallLow.
MaxSteps == 6

\* How many step() calls are followed from WallLow; every play from WallLow
\* has ended before.
MaxLateSteps == 20

NoStep == Action("none", None, <<>>, None)

NoEvent == [event |-> "none", player |-> None, tile |-> None]

InitFrom(snap, depth) ==
  /\ players = snap.players
  /\ wall = snap.wall
  /\ wall_back = snap.wall_back
  /\ discard_pool = snap.discard_pool
  /\ current_player = snap.current_player
  /\ last_discard = snap.last_discard
  /\ last_action = snap.last_action
  /\ phase = snap.phase
  /\ sub_phase = snap.sub_phase
  /\ pending_discard = snap.pending_discard
  /\ pending_discarder = snap.pending_discarder
  /\ just_drew = snap.just_drew
  /\ after_kong = snap.after_kong
  /\ passed_players = snap.passed_players
  /\ nsteps = snap.nsteps
  /\ horizon = snap.nsteps + depth
  /\ last_step = NoStep
  /\ exc = "none"
  /\ last_event = NoEvent
  /\ replaced = 4
  /\ deck = <<>>
  /\ args = NoCall /\ result = NoCall

Init ==
  /\ \/ InitFrom(BySeat(StartOfHand), MaxSteps)
     \/ InitFrom(BySeat(BackWallLow), MaxSteps)
     \/ InitFrom(BySeat(WallLow), MaxLateSteps)
  /\ human_seat = 0
  /\ mode = "easy"

\* The session becomes r.
Becomes(r) ==
  /\ players' = r.players
  /\ wall' = r.wall
  /\ wall_back' = r.wall_back
  /\ discard_pool' = r.discard_pool
  /\ current_player' = r.current_player
  /\ last_discard' = r.last_discard
  /\ last_action' = r.last_action
  /\ phase' = r.phase
  /\ sub_phase' = r.sub_phase
  /\ pending_discard' = r.pending_discard
  /\ pending_discarder' = r.pending_discarder
  /\ just_drew' = r.just_drew
  /\ after_kong' = r.after_kong
  /\ passed_players' = r.passed_players

\* One call session.step(action) by the driver.
Step(action) ==
  /\ nsteps < horizon
  /\ LET r == step(S, action)
     IN Becomes(r) /\ exc' = r.exc
  /\ nsteps' = nsteps + 1
  /\ last_step' = action
  /\ UNCHANGED << horizon, human_seat, mode, last_event, replaced, deck, args, result >>

\* The driver of tests/test_game_session.py submits any action of any
\* player's legal-action list; one action of the model per action type.
Draw ==
  \E p \in Seats : \E a \in legal_actions_of(S, p, "draw") : Step(a)

Discard ==
  \E p \in Seats : \E a \in legal_actions_of(S, p, "discard") : Step(a)

Chi ==
  \E p \in Seats : \E a \in legal_actions_of(S, p, "chi") : Step(a)

Pong ==
  \E p \in Seats : \E a \in legal_actions_of(S, p, "pong") : Step(a)

OpenKong ==
  \E p \in Seats : \E a \in legal_actions_of(S, p, "open_kong") : Step(a)

AddedKong ==
  \E p \in Seats : \E a \in legal_actions_of(S, p, "added_kong") : Step(a)

ConcealedKong ==
  \E p \in Seats : \E a \in legal_actions_of(S, p, "concealed_kong") : Step(a)

Win ==
  \E p \in Seats : \E a \in legal_actions_of(S, p, "win") : Step(a)

Pass ==
  \E p \in Seats : \E a \in legal_actions_of(S, p, "pass") : Step(a)

Next ==
  \/ Draw
  \/ Discard
  \/ Chi
  \/ Pong
  \/ OpenKong
  \/ AddedKong
  \/ ConcealedKong
  \/ Win
  \/ Pass

Spec == Init /\ [][Next]_vars

(***************************************************************************)
(* GameSession.start_hand: shuffle, deal, flower replacement.              *)
(* engine/tiles.py, engine/wall.py, engine/deal.py                         *)
(***************************************************************************)
\* build_full_deck(): four copies of each of the 34 plain tiles, suit by
\* suit and then the honors.
build_full_deck ==
  [i \in 1..136 |->
     LET k == (i - 1) \div 4
     IN IF k < 27 THEN MkTile((k % 9) + 1, k \div 9) ELSE 30 + (k - 27)]

build_flower_set == [i \in 1..8 |-> 40 + i]

\* The positions of the shuffled deck where the shuffles explored put the
\* flowers: the dealer's tiles 1-4, 17 and 65 of the deal, one tile of seat
\* 1 (5) and of seat 3 (13), a tile deep in the draw wall (100) and the
\* head of the back wall (129-131).
FlowerSlots == {1, 2, 3, 4, 5, 13, 17, 65, 100, 129, 130, 131}

\* random.shuffle: one permutation of the deck for every choice F of eight
\* flower positions.  The plain tiles follow in a fixed scrambled order
\* (37 is coprime to 136), the flowers in ascending order.
shuffle(deck_list, F) ==
  [i \in 1..Len(deck_list) |->
     LET before == Cardinality({j \in F : j < i})
     IN IF i \in F THEN deck_list[136 + before + 1]
        ELSE deck_list[(((i - before) * 37) % 136) + 1]]

FlowerChoices == {G \in SUBSET FlowerSlots : Cardinality(G) = 8}

\* shuffle_and_build_wall shuffling the caller's list itself.
shuffle_and_build_wall_in_place(deck_list, F) ==
  LET shuffled == shuffle(deck_list, F)
  IN [deck |-> shuffled,
      wall |-> SubSeq(shuffled, 1, Len(shuffled) - RESERVED_COUNT),
      back |-> SubSeq(shuffled, Len(shuffled) - RESERVED_COUNT + 1, Len(shuffled))]

\* shuffle_and_build_wall: a copy of the list is shuffled (the shuffle of
\* choice F); the last RESERVED_COUNT tiles are the back wall.  deck is the
\* caller's list after the call.
shuffle_and_build_wall(deck_list, F) ==
  LET shuffled == shuffle(deck_list, F)
  IN [deck |-> deck_list,
      wall |-> SubSeq(shuffled, 1, Len(shuffled) - RESERVED_COUNT),
      back |-> SubSeq(shuffled, Len(shuffled) - RESERVED_COUNT + 1, Len(shuffled))]

\* The three nested loops of deal_initial_hands, k draws done: draw k + 1
\* goes to the player at place (k div 4) mod 4 of players_in_order.
RECURSIVE deal_rounds(_, _)
deal_rounds(s, k) ==
  IF k = 64 THEN s
  ELSE LET p_idx == (dealer_index + ((k \div 4) % 4)) % 4
           d == draw_from_wall(s.wall)
       IN deal_rounds([s EXCEPT !.wall = d.rest,
                                !.players[p_idx].hand = Append(@, d.tile)],
                      k + 1)

\* deal_initial_hands handing out one tile per player in each round.
deal_initial_hands_by_one(s) ==
  LET s1 == [s EXCEPT !.wall = SubSeq(s.wall, 65, Len(s.wall)),
                      !.players = [p \in Seats |->
                         [s.players[p] EXCEPT !.hand =
                            [j \in 1..16 |-> s.wall[4 * (j - 1) + ((p - dealer_index + 4) % 4) + 1]]]]]
      d == draw_from_wall(s1.wall)
  IN [s1 EXCEPT !.wall = d.rest,
                !.players[dealer_index].hand = Append(@, d.tile)]

deal_initial_hands(s) ==
  LET s1 == deal_rounds(s, 0)
      d == draw_from_wall(s1.wall)
  IN [s1 EXCEPT !.wall = d.rest,
                !.players[dealer_index].hand = Append(@, d.tile)]

\* reversed(seq)
RECURSIVE reversed(_)
reversed(seq) ==
  IF seq = <<>> THEN <<>> ELSE Append(reversed(Tail(seq)), Head(seq))

\* _replace_flowers_for_player moving the flowers out without drawing.
replace_flowers_for_player_no_draw(s, p_idx) ==
  LET hand == s.players[p_idx].hand
  IN [s EXCEPT !.players[p_idx].hand = SelectSeq(hand, LAMBDA t : ~is_flower_tile(t)),
               !.players[p_idx].flowers =
                  @ \o reversed(SelectSeq(hand, is_flower_tile))]

\* _replace_flowers_for_player: the flowers are popped from the highest
\* index down and appended to the flower area, then as many tiles are drawn
\* from the back wall; draw_from_back raises IndexError on an empty one.
RECURSIVE replace_flowers_for_player(_, _)
replace_flowers_for_player(s, p_idx) ==
  LET hand == s.players[p_idx].hand
      flower_indices == {i \in DOMAIN hand : is_flower_tile(hand[i])}
      n == Cardinality(flower_indices)
      kept == SelectSeq(hand, LAMBDA t : ~is_flower_tile(t))
      moved == reversed(SelectSeq(hand, is_flower_tile))
      back == s.wall_back
  IN IF flower_indices = {} THEN s
     ELSE IF Len(back) < n
     THEN Raise([s EXCEPT !.players[p_idx].hand = kept \o back,
                          !.players[p_idx].flowers = @ \o moved,
                          !.wall_back = <<>>],
                "IndexError")
     ELSE replace_flowers_for_player(
            [s EXCEPT !.players[p_idx].hand = kept \o SubSeq(back, 1, n),
                      !.players[p_idx].flowers = @ \o moved,
                      !.wall_back = SubSeq(back, n + 1, Len(back))],
            p_idx)

check_peipai_flower_hu(s, p_idx) == Len(s.players[p_idx].flowers) = 8

\* GameState.new_game() and GameSession.__init__, then the first statement
\* of start_hand.
InitDeal ==
  /\ wall = <<>>
  /\ wall_back = <<>>
  /\ deck = build_full_deck \o build_flower_set
  /\ args = NoCall /\ result = NoCall
  /\ players = [p \in Seats |->
                  [hand |-> <<>>, melds |-> <<>>, flowers |-> <<>>, discards |-> <<>>]]
  /\ discard_pool = <<>>
  /\ current_player = 0
  /\ last_discard = None
  /\ last_action = NoAction
  /\ phase = "deal"
  /\ sub_phase = "active_turn"
  /\ pending_discard = None
  /\ pending_discarder = None
  /\ just_drew = FALSE
  /\ after_kong = FALSE
  /\ passed_players = {}
  /\ nsteps = 0
  /\ horizon = 0
  /\ last_step = NoStep
  /\ exc = "none"
  /\ human_seat = 0
  /\ mode = "easy"
  /\ last_event = NoEvent
  /\ replaced = 0

\* start_hand: wall, back = shuffle_and_build_wall(deck); phase = "deal".
ShuffleAndBuildWall ==
  /\ phase = "deal" /\ wall = <<>> /\ wall_back = <<>>
  /\ \E F \in FlowerChoices :
       LET r == shuffle_and_build_wall(deck, F)
       IN /\ wall' = r.wall
          /\ wall_back' = r.back
          /\ deck' = r.deck
  /\ UNCHANGED << players, discard_pool, current_player, last_discard, last_action,
                  phase, sub_phase, pending_discard, pending_discarder, just_drew,
                  after_kong, passed_players, nsteps, horizon, last_step, exc,
                  human_seat, mode, last_event, replaced, args, result >>

\* start_hand: deal_initial_hands(self.state); phase = "flower_replacement".
DealInitialHands ==
  /\ phase = "deal" /\ wall # <<>>
  /\ Becomes([deal_initial_hands(S) EXCEPT !.phase = "flower_replacement"])
  /\ UNCHANGED << nsteps, horizon, last_step, exc, human_seat, mode, last_event,
                  replaced, deck, args, result >>

\* flower_replacement: one pass of the loop over order.
ReplaceFlowersForPlayer ==
  /\ phase = "flower_replacement" /\ replaced < 4 /\ exc = "none"
  /\ LET r == replace_flowers_for_player(S, (dealer_index + replaced) % 4)
     IN Becomes(r) /\ exc' = r.exc
  /\ replaced' = replaced + 1
  /\ UNCHANGED << nsteps, horizon, last_step, human_seat, mode, last_event, deck, args, result >>

\* The end of flower_replacement (phase = "play") and of start_hand.
EnterPlay ==
  /\ phase = "flower_replacement" /\ replaced = 4 /\ exc = "none"
  /\ Becomes([S EXCEPT !.phase = "play",
                       !.current_player = dealer_index,
                       !.sub_phase = "active_turn",
                       !.just_drew = TRUE])
  /\ deck' = <<>>
  /\ UNCHANGED << nsteps, horizon, last_step, exc, human_seat, mode, last_event,
                  replaced, args, result >>

NextDeal ==
  \/ ShuffleAndBuildWall
  \/ DealInitialHands
  \/ ReplaceFlowersForPlayer
  \/ EnterPlay

SpecDeal == InitDeal /\ [][NextDeal]_vars

(***************************************************************************)
(* server/serializer.py.  A dict is a record, a list a sequence; the hand  *)
(* entry None is written HiddenHand, a sequence no hand can equal.         *)
(***************************************************************************)
HiddenHand == << None >>

serialize_meld(meld) ==
  [type |-> meld.type, tiles |-> meld.tiles, from_player |-> meld.from_player]

\* serialize_player showing every hand.
serialize_player_shown(s, seat, is_self, reveal) ==
  LET player == s.players[seat]
  IN [seat |-> seat,
      hand |-> player.hand,
      hand_count |-> Len(player.hand),
      melds |-> [i \in DOMAIN player.melds |-> serialize_meld(player.melds[i])],
      flowers |-> player.flowers,
      discards |-> player.discards,
      is_dealer |-> (seat = dealer_index)]

\* PlayerState.seat is the player's index and is_dealer is set for the
\* dealer only (GameState.new_game).
serialize_player(s, seat, is_self, reveal) ==
  LET player == s.players[seat]
      show_hand == is_self \/ reveal
  IN [seat |-> seat,
      hand |-> IF show_hand THEN player.hand ELSE HiddenHand,
      hand_count |-> Len(player.hand),
      melds |-> [i \in DOMAIN player.melds |-> serialize_meld(player.melds[i])],
      flowers |-> player.flowers,
      discards |-> player.discards,
      is_dealer |-> (seat = dealer_index)]

\* round_wind and round_number keep the values new_game gave them.
serialize_game_state(s, viewer_idx, reveal_all) ==
  [players |-> [seat \in Seats |->
                  serialize_player(s, seat, seat = viewer_idx, reveal_all)],
   discard_pool |-> s.discard_pool,
   current_player |-> s.current_player,
   round_wind |-> "E",
   round_number |-> 0,
   dealer_index |-> dealer_index,
   wall_remaining |-> Len(s.wall) + Len(s.wall_back),
   last_discard |-> s.last_discard,
   phase |-> s.phase]

(***************************************************************************)
(* A driver that does not consult get_legal_actions: step() takes whatever *)
(* Action it is given (server/ws_server.py hands the client's message to   *)
(* the session unchecked).  The actions submitted are the legal ones and a *)
(* few others of every type.                                               *)
(***************************************************************************)
\* How many step() calls of this driver are followed from a snapshot.
MaxAnySteps == 3

AnyTiles == {None, 5, 18}

ArbitraryActions(type) ==
  CASE type = "draw" -> {Action("draw", None, <<>>, None)}
    [] type = "discard" -> {Action("discard", t, <<>>, None) : t \in AnyTiles}
    [] type = "chi" ->
         {Action("chi", 5, c, p) : c \in {<<3, 4, 5>>, <<4, 5, 6>>}, p \in {1, 3}}
    [] type \in {"pong", "open_kong"} -> {Action(type, 5, <<>>, p) : p \in Seats}
    [] type \in {"added_kong", "concealed_kong"} ->
         {Action(type, t, <<>>, None) : t \in AnyTiles}
    [] type = "win" -> {Action("win", 5, <<>>, p) : p \in Seats \cup {None}}
    [] type = "pass" -> {Action("pass", None, <<>>, p) : p \in Seats \cup {None}}
    [] OTHER -> {}

Submitted(type) ==
  ArbitraryActions(type) \cup UNION {legal_actions_of(S, p, type) : p \in Seats}

\* The claim window two legal steps after WallLow: seat 2 has drawn 8p and
\* discarded 5m, on which seats 1 and 3 can win, seat 3 can chi and seat 0
\* can pong or kong.
WallLowClaim ==
  LET s0 == BySeat(WallLow)
      s1 == step(s0, Action("draw", None, <<>>, None))
      s2 == step(s1, Action("discard", 5, <<>>, None))
  IN [s2 EXCEPT !.nsteps = s0.nsteps + 2]

InitAny ==
  /\ \/ InitFrom(BySeat(StartOfHand), MaxAnySteps)
     \/ InitFrom(BySeat(WallLow), MaxAnySteps)
     \/ InitFrom(WallLowClaim, MaxAnySteps)
  /\ human_seat = 0
  /\ mode = "easy"

SubmitDraw == \E a \in Submitted("draw") : Step(a)

SubmitDiscard == \E a \in Submitted("discard") : Step(a)

SubmitChi == \E a \in Submitted("chi") : Step(a)

SubmitPong == \E a \in Submitted("pong") : Step(a)

SubmitOpenKong == \E a \in Submitted("open_kong") : Step(a)

SubmitAddedKong == \E a \in Submitted("added_kong") : Step(a)

SubmitConcealedKong == \E a \in Submitted("concealed_kong") : Step(a)

SubmitWin == \E a \in Submitted("win") : Step(a)

SubmitPass == \E a \in Submitted("pass") : Step(a)

NextAny ==
  \/ SubmitDraw
  \/ SubmitDiscard
  \/ SubmitChi
  \/ SubmitPong
  \/ SubmitOpenKong
  \/ SubmitAddedKong
  \/ SubmitConcealedKong
  \/ SubmitWin
  \/ SubmitPass

SpecAny == InitAny /\ [][NextAny]_vars

(***************************************************************************)
(* ai/shanten.py                                                           *)
(***************************************************************************)
NUM_TILE_TYPES == 34

\* 0-8: 1m-9m, 9-17: 1p-9p, 18-26: 1s-9s, 27-33: E,S,W,N,C,F,B
tile_to_idx(tile) ==
  IF is_number_tile(tile) THEN tile_value(tile) - 1 + 9 * tile_suit(tile)
  ELSE 27 + (tile - 30)

hand_to_counts(hand) ==
  [i \in 0..(NUM_TILE_TYPES - 1) |->
     Cardinality({k \in DOMAIN hand : tile_to_idx(hand[k]) = i})]

\* The loop "while idx < _NUM_TILE_TYPES and counts[idx] == 0: idx += 1":
\* the first index from idx on that holds a tile, or NUM_TILE_TYPES.
next_nonzero(counts, idx) ==
  CHOOSE i \in idx..NUM_TILE_TYPES :
    /\ i = NUM_TILE_TYPES \/ counts[i] # 0
    /\ \A j \in idx..(i - 1) : counts[j] = 0

\* sum(counts[lo:hi + 1]), by halves.
RECURSIVE sum_range(_, _, _)
sum_range(counts, lo, hi) ==
  IF lo > hi THEN 0
  ELSE IF lo = hi THEN counts[lo]
  ELSE sum_range(counts, lo, (lo + hi) \div 2)
         + sum_range(counts, (lo + hi) \div 2 + 1, hi)

\* sum(counts[idx:])
sum_from(counts, idx) == sum_range(counts, idx, NUM_TILE_TYPES - 1)

\* "counts[idx + k] -= d[k]" for every offset k of d.
take(counts, idx, d) ==
  [i \in {idx + k : k \in DOMAIN d} |-> counts[i] - d[i - idx]] @@ counts

\* The tiles taken for a branch are not put back.
give_nothing(counts, idx, d) == counts

\* "counts[idx + k] += d[k]" for every offset k of d.
give(counts, idx, d) ==
  [i \in {idx + k : k \in DOMAIN d} |-> counts[i] + d[i - idx]] @@ counts

\* The tiles the branches of _search take, by offset from idx.
Triplet == (0 :> 3)

Sequence == (0 :> 1 @@ 1 :> 1 @@ 2 :> 1)

Pair == (0 :> 2)

Adjacent == (0 :> 1 @@ 1 :> 1)

SkipOne == (0 :> 1 @@ 2 :> 1)

\* "counts[idx] >= .. and counts[idx + 1] >= .. ..." for the tiles of d.
holds(counts, idx, d) == \A k \in DOMAIN d : counts[idx + k] >= d[k]

\* _search on r = [best |-> best[0], counts |-> counts]: the two when the
\* call returns.  branch is one guarded branch of it,
\* "if cond and <counts hold d>: <take d>; _search(...); <give d back>".
RECURSIVE search(_, _, _, _, _, _)
branch(cond, d, r, idx, sets_needed, mentsu, taatsu, jantai) ==
  IF cond /\ holds(r.counts, idx, d)
  THEN [search([r EXCEPT !.counts = take(@, idx, d)], idx, sets_needed, mentsu,
               taatsu, jantai)
          EXCEPT !.counts = give(@, idx, d)]
  ELSE r

search(r, idx0, sets_needed, mentsu, taatsu, jantai) ==
  LET effective_taatsu == Min(taatsu, sets_needed - mentsu)
      sv == 2 * (sets_needed - mentsu) - effective_taatsu - (IF jantai THEN 1 ELSE 0)
      r0 == [r EXCEPT !.best = Min(sv, @)]
      idx == next_nonzero(r.counts, idx0)
  IN IF r0.best <= -1 \/ idx >= NUM_TILE_TYPES THEN r0
     ELSE
       LET remaining == sum_from(r.counts, idx)
           max_new_mentsu == remaining \div 3
           max_new_taatsu == (remaining - max_new_mentsu * 3) \div 2
           theoretical_best ==
             2 * (sets_needed - mentsu - max_new_mentsu)
               - Min(taatsu + max_new_taatsu, sets_needed - mentsu - max_new_mentsu)
               - 1
           number == idx < 27
           pos == idx % 9
           partial == taatsu < sets_needed - mentsu
           r1 == branch(TRUE, Triplet, r0, idx, sets_needed, mentsu + 1, taatsu, jantai)
           r2 == branch(number /\ pos <= 6, Sequence, r1, idx, sets_needed,
                        mentsu + 1, taatsu, jantai)
           \* pair as jantou
           r3 == branch(~jantai, Pair, r2, idx, sets_needed, mentsu, taatsu, TRUE)
           \* pair as taatsu
           r4 == branch(partial /\ jantai, Pair, r3, idx, sets_needed, mentsu,
                        taatsu + 1, jantai)
           r5 == branch(partial /\ number /\ pos <= 7, Adjacent, r4, idx, sets_needed,
                        mentsu, taatsu + 1, jantai)
           r6 == branch(partial /\ number /\ pos <= 6, SkipOne, r5, idx, sets_needed,
                        mentsu, taatsu + 1, jantai)
           \* the branches in the order they are run
           after == <<r1, r2, r3, r4, r5, r6>>
       IN IF theoretical_best >= r0.best THEN r0
          ELSE \* saved = counts[idx]; counts[idx] = 0; _search(.., idx + 1, ..);
               \* counts[idx] = saved
               [search([after[6] EXCEPT !.counts[idx] = 0], idx + 1, sets_needed,
                       mentsu, taatsu, jantai)
                  EXCEPT !.counts[idx] = after[6].counts[idx]]

\* The search started for five sets whatever the melds.
shanten_search_ignoring_melds(hand, melds) ==
  search([best |-> 10, counts |-> hand_to_counts(hand)], 0, 5, 0, 0, FALSE)

\* shanten_number: best[0] after the search, and the list counts as the
\* search leaves it.
shanten_search(hand, melds) ==
  LET sets_needed == 5 - Len(melds)
  IN search([best |-> 2 * sets_needed, counts |-> hand_to_counts(hand)], 0,
            sets_needed, 0, 0, FALSE)

shanten_number(hand, melds) == shanten_search(hand, melds).best

(***************************************************************************)
(* ai/rule_based.py.  choose_action scans the list get_legal_actions       *)
(* returns; where the order of that list follows Python's set iteration    *)
(* order, the result is the set of actions some order yields.              *)
(***************************************************************************)
is_honor_tile(tile) == tile \in HONORS

\* _best_discard: least shanten, then highest tiebreak priority; among
\* equals the first of the list.
best_discard(s, player_idx, discard_actions) ==
  LET player == s.players[player_idx]
      \* <<action, s, priority>> of each pass of the loop
      scored == {<<a,
                   shanten_number(IF Contains(player.hand, a.tile)
                                  THEN list_remove(player.hand, a.tile)
                                  ELSE player.hand, player.melds),
                   IF is_honor_tile(a.tile) THEN 2
                   ELSE IF is_number_tile(a.tile) /\ tile_value(a.tile) \in {1, 9}
                        THEN 1 ELSE 0>> : a \in discard_actions}
  IN {x[1] : x \in {y \in scored :
                      \A z \in scored :
                        \/ y[2] < z[2]
                        \/ y[2] = z[2] /\ y[3] >= z[3]}}

\* Priority 4 of choose_action: would taking this pong or chi reduce shanten?
reduces_shanten(s, player_idx, a) ==
  LET player == s.players[player_idx]
      current_shanten == shanten_number(player.hand, player.melds)
      new_melds == Append(player.melds,
                          [type |-> a.type,
                           tiles |-> IF a.type = "pong" THEN <<a.tile, a.tile, a.tile>>
                                     ELSE a.combo,
                           from_player |-> None])
      r == remove_combo(player.hand, a.combo, a.tile, 1)
      valid_simulation ==
        IF a.type = "pong" THEN Count(player.hand, a.tile) >= 2 ELSE r.ok
      simulated_hand ==
        IF a.type = "pong" THEN RemoveN(player.hand, a.tile, 2) ELSE r.hand
  IN /\ valid_simulation
     /\ shanten_number(simulated_hand, new_melds) < current_shanten

\* Position of a pong or chi action in the list _get_claim_actions builds:
\* the pong first, then the chi combos in get_chi_combinations order.
claim_position(s, player_idx, a) ==
  IF a.type = "pong" THEN 0
  ELSE LET combos == get_chi_combinations(s.players[player_idx].hand, a.tile)
       IN CHOOSE i \in DOMAIN combos : combos[i] = a.combo

choose_action(s, player_idx, legal_actions) ==
  LET of_type(types) == {a \in legal_actions : a.type \in types}
      accepted == {a \in of_type({"pong", "chi"}) : reduces_shanten(s, player_idx, a)}
  IN IF of_type({"win"}) # {} THEN of_type({"win"})
     ELSE IF of_type({"discard"}) # {}
          THEN best_discard(s, player_idx, of_type({"discard"}))
     ELSE IF of_type(KongTypes) # {} THEN of_type(KongTypes)
     ELSE IF accepted # {}
          THEN {a \in accepted :
                  \A b \in accepted :
                    claim_position(s, player_idx, a) <= claim_position(s, player_idx, b)}
     ELSE IF of_type({"draw"}) # {} THEN of_type({"draw"})
     ELSE IF of_type({"pass"}) # {} THEN of_type({"pass"})
     ELSE legal_actions

(***************************************************************************)
(* server/game_manager.py                                                  *)
(***************************************************************************)
\* _CLAIM_PRIORITY.get(type, 0)
CLAIM_PRIORITY(type) ==
  CASE type = "win" -> 4
    [] type = "open_kong" -> 3
    [] type = "pong" -> 2
    [] type = "chi" -> 1
    [] OTHER -> 0

\* The manager's view: the session, the count of step() calls, the latest
\* action stepped and the latest event appended.
M == [s |-> S, n |-> nsteps, last |-> last_step, ev |-> last_event]

\* self.session.step(action)
session_step(m, action) ==
  [m EXCEPT !.s = step(m.s, action), !.n = @ + 1, !.last = action]

\* _append_event
append_event(m, event, player, tile) ==
  [m EXCEPT !.ev = [event |-> event, player |-> player, tile |-> tile]]

\* The loop of _pass_all_except and _pass_all from seat idx on.
RECURSIVE pass_from(_, _, _, _)
pass_from(m, discarder, exclude_idx, idx) ==
  IF idx > 3 THEN m
  ELSE IF idx = discarder \/ idx = exclude_idx \/ idx \in m.s.passed_players
       THEN pass_from(m, discarder, exclude_idx, idx + 1)
  ELSE LET passes == {a \in get_legal_actions(m.s, idx) : a.type = "pass"}
       IN pass_from(IF passes = {} THEN m
                    ELSE session_step(m, CHOOSE a \in passes : TRUE),
                    discarder, exclude_idx, idx + 1)

pass_all_except(m, exclude_idx) ==
  pass_from(m, m.s.pending_discarder, exclude_idx, 0)

\* _pass_all submitting no pass at all.
pass_all_nobody(m) == m

pass_all(m) == pass_from(m, m.s.pending_discarder, None, 0)

\* best_priority after the loop over the seats given: the highest priority
\* in their legal-action lists, -1 when the lists are empty.
best_priority(s, seats) ==
  LET ps == {CLAIM_PRIORITY(a.type) :
               a \in UNION {get_legal_actions(s, idx) : idx \in seats}}
  IN IF ps = {} THEN -1 ELSE CHOOSE x \in ps : \A y \in ps : y <= x

\* best_action.player_idx after the same loop: the comparison is strict, so
\* the first seat in range(4) holding the highest priority keeps it.
best_claimer(s, seats) ==
  LET bp == best_priority(s, seats)
      holders == {idx \in seats :
                    \E a \in get_legal_actions(s, idx) : CLAIM_PRIORITY(a.type) = bp}
  IN CHOOSE idx \in holders : \A j \in holders : idx <= j

\* The part _handle_claim_phase (steps 4, 5) and _handle_claim_phase_inspect
\* share: the best claimer's choose_action is executed after the others
\* have passed, or everybody passes.
claim_or_pass_all(m, seats) ==
  IF best_priority(m.s, seats) > 0
  THEN LET claimer_idx == best_claimer(m.s, seats)
           legal == get_legal_actions(m.s, claimer_idx)
       IN {IF ai_action.type # "pass"
           THEN append_event(session_step(pass_all_except(m, claimer_idx), ai_action),
                             ai_action.type, claimer_idx, ai_action.tile)
           ELSE pass_all(m) :
             ai_action \in choose_action(m.s, claimer_idx, legal)}
  ELSE {pass_all(m)}

\* Step 3 of _handle_claim_phase: the human has a claim that no AI claim
\* outranks.
human_must_decide(s, human) ==
  LET human_non_pass == {a \in get_legal_actions(s, human) : a.type # "pass"}
  IN /\ human_non_pass # {}
     /\ \E a \in human_non_pass :
          CLAIM_PRIORITY(a.type) >= best_priority(s, Seats \ {human})

\* _handle_claim_phase: the possible outcomes; when the human must decide
\* nothing is changed.
handle_claim_phase(m, human) ==
  IF human_must_decide(m.s, human) THEN {m}
  ELSE claim_or_pass_all(m, Seats \ {human})

handle_claim_phase_inspect(m) == claim_or_pass_all(m, Seats)

(***************************************************************************)
(* GameManager driving the session: handle_human_action and the iterations *)
(* of the _run_ai_turns loop.  The loop returns, and the manager waits for *)
(* the human, on the human's turn and on a claim the human must decide;    *)
(* its cap of 500 iterations is not reached within the steps followed.     *)
(***************************************************************************)
\* How many step() calls are followed from ManagerLate.
MaxMgrSteps == 12

InitMgr ==
  \/ /\ InitFrom(BySeat(ManagerLate), MaxMgrSteps)
     /\ human_seat \in Seats
     /\ mode \in {"easy", "inspect"}
  \/ /\ InitFrom(BySeat(ManagerClaim), MaxMgrSteps)
     /\ human_seat = 3
     /\ mode = "easy"

BecomesM(r) ==
  /\ Becomes(r.s)
  /\ exc' = r.s.exc
  /\ nsteps' = r.n
  /\ last_step' = r.last
  /\ last_event' = r.ev
  /\ UNCHANGED << horizon, human_seat, mode, replaced, deck, args, result >>

\* _run_ai_turns has returned to wait for the human.
AwaitingHuman ==
  /\ mode # "inspect"
  /\ phase = "play"
  /\ IF sub_phase = "claim" THEN human_must_decide(S, human_seat)
     ELSE current_player = human_seat

\* handle_human_action with one of the options of get_action_request.
HandleHumanAction ==
  /\ nsteps < horizon
  /\ AwaitingHuman
  /\ \E a \in get_legal_actions(S, human_seat) :
       BecomesM(append_event(
                  session_step(M, Action(a.type, a.tile, a.combo, human_seat)),
                  a.type, human_seat, a.tile))

\* An iteration of _run_ai_turns in an active turn: the AI of the current
\* seat acts.
RunAiTurn ==
  /\ nsteps < horizon
  /\ phase = "play"
  /\ sub_phase # "claim"
  /\ ~(current_player = human_seat /\ mode # "inspect")
  /\ \E ai_action \in choose_action(S, current_player,
                                    get_legal_actions(S, current_player)) :
       BecomesM(append_event(session_step(M, ai_action),
                             ai_action.type, current_player, ai_action.tile))

\* An iteration of _run_ai_turns in a claim window, with a human seat.
HandleClaimPhase ==
  /\ nsteps < horizon
  /\ phase = "play"
  /\ sub_phase = "claim"
  /\ mode # "inspect"
  /\ \E r \in handle_claim_phase(M, human_seat) : BecomesM(r)

\* An iteration of _run_ai_turns in a claim window, in inspect mode.
HandleClaimPhaseInspect ==
  /\ nsteps < horizon
  /\ phase = "play"
  /\ sub_phase = "claim"
  /\ mode = "inspect"
  /\ \E r \in handle_claim_phase_inspect(M) : BecomesM(r)

NextMgr ==
  \/ HandleHumanAction
  \/ RunAiTurn
  \/ HandleClaimPhase
  \/ HandleClaimPhaseInspect

SpecMgr == InitMgr /\ [][NextMgr]_vars

(***************************************************************************)
(* Library calls outside a hand                                            *)
(***************************************************************************)
\* The session is as GameState.new_game() leaves it while a library function
\* is called with the arguments a.
InitCall(a) ==
  /\ wall = <<>>
  /\ wall_back = <<>>
  /\ deck = <<>>
  /\ args = a
  /\ result = NoCall
  /\ players = [p \in Seats |->
                  [hand |-> <<>>, melds |-> <<>>, flowers |-> <<>>, discards |-> <<>>]]
  /\ discard_pool = <<>>
  /\ current_player = 0
  /\ last_discard = None
  /\ last_action = NoAction
  /\ phase = "deal"
  /\ sub_phase = "active_turn"
  /\ pending_discard = None
  /\ pending_discarder = None
  /\ just_drew = FALSE
  /\ after_kong = FALSE
  /\ passed_players = {}
  /\ nsteps = 0
  /\ horizon = 0
  /\ last_step = NoStep
  /\ exc = "none"
  /\ human_seat = 0
  /\ mode = "easy"
  /\ last_event = NoEvent
  /\ replaced = 0

\* The call returns r; a is what its argument objects hold afterwards.
Returns(a, r) ==
  /\ result = NoCall
  /\ args' = a
  /\ result' = r
  /\ UNCHANGED << players, wall, wall_back, discard_pool, current_player,
                  last_discard, last_action, phase, sub_phase, pending_discard,
                  pending_discarder, just_drew, after_kong, passed_players,
                  nsteps, horizon, last_step, exc, human_seat, mode, last_event,
                  replaced, deck >>

(***************************************************************************)
(* engine/scorer.py                                                        *)
(* The yaku names are the source's names in pinyin: tianhu, dihu, renhu,   *)
(* dasixi, ziyise (16); peipai_huahu (12); tianting, bajian_guohai,        *)
(* qiqiang_yi, dasanyuan, xiaosixi, qingyise, wuanke (8); sianke (5);      *)
(* diting, duiduihu, xiaosanyuan, couyise (4); sananke, buqiu, pinghu,     *)
(* quanqiu, huagang (2); zuozhuang, menqing, zimo, fengpai, fengquan,      *)
(* jianzikan, huapai, qiangang, gangshang_kaihua, haidi_laoyue,            *)
(* hedi_laoyu (1); lianzhuang (the dealer's streak).                       *)
(***************************************************************************)
MAX_TAI == 81

SEASON_FLOWERS == <<41, 42, 43, 44>>

PLANT_FLOWERS == <<45, 46, 47, 48>>

SEAT_WINDS == <<30, 31, 32, 33>>

is_wind_tile(tile) == tile \in WINDS

is_dragon_tile(tile) == tile \in DRAGONS

own_seat_flowers(seat) == {SEASON_FLOWERS[seat + 1], PLANT_FLOWERS[seat + 1]}

is_triplet(s) == Len(s) >= 3 /\ s[1] = s[2] /\ s[2] = s[3]

is_sequence(s) ==
  /\ Len(s) >= 3
  /\ \A i \in DOMAIN s : is_number_tile(s[i])
  /\ \A i \in DOMAIN s : tile_suit(s[i]) = tile_suit(s[1])
  /\ LET vals == SortSeq([i \in DOMAIN s |-> tile_value(s[i])],
                         LAMBDA a, b : a < b)
     IN vals[2] = vals[1] + 1 /\ vals[3] = vals[2] + 1

\* Every triplet of the decomposition counts as concealed.
count_concealed_triplets_all(sets, is_self_draw, win_tile) ==
  Cardinality({i \in DOMAIN sets : is_triplet(sets[i])})

\* The loop of _count_concealed_triplets from set i on.
RECURSIVE count_concealed_from(_, _, _, _, _)
count_concealed_from(sets, is_self_draw, win_tile, i, win_tile_used) ==
  IF i > Len(sets) THEN 0
  ELSE IF is_triplet(sets[i])
       THEN IF ~is_self_draw /\ ~win_tile_used /\ sets[i][1] = win_tile
            THEN count_concealed_from(sets, is_self_draw, win_tile, i + 1, TRUE)
            ELSE 1 + count_concealed_from(sets, is_self_draw, win_tile, i + 1,
                                          win_tile_used)
  ELSE count_concealed_from(sets, is_self_draw, win_tile, i + 1, win_tile_used)

count_concealed_triplets(sets, is_self_draw, win_tile) ==
  count_concealed_from(sets, is_self_draw, win_tile, 1, FALSE)

count_dragon_triplets(all_sets) ==
  Cardinality({i \in DOMAIN all_sets :
                 is_triplet(all_sets[i]) /\ is_dragon_tile(all_sets[i][1])})

count_wind_triplets(all_sets) ==
  Cardinality({i \in DOMAIN all_sets :
                 is_triplet(all_sets[i]) /\ is_wind_tile(all_sets[i][1])})

\* _has_wind_triplet and _has_dragon_triplet.
has_triplet_of(all_sets, tile) ==
  \E i \in DOMAIN all_sets : is_triplet(all_sets[i]) /\ all_sets[i][1] = tile

\* The tiles of full_hand and of all melds (all_tiles of the source).
all_tiles_of(full_hand, melds) ==
  ToSet(full_hand) \cup UNION {ToSet(melds[i].tiles) : i \in DOMAIN melds}

all_honors(full_hand, melds) ==
  \A t \in all_tiles_of(full_hand, melds) : is_honor_tile(t)

is_qingyise(full_hand, melds) ==
  LET all_tiles == all_tiles_of(full_hand, melds)
  IN /\ \A t \in all_tiles : is_number_tile(t)
     /\ Cardinality({tile_suit(t) : t \in all_tiles}) = 1

is_hunyise(full_hand, melds) ==
  LET all_tiles == all_tiles_of(full_hand, melds)
      number_suits == {tile_suit(t) : t \in {u \in all_tiles : is_number_tile(u)}}
  IN /\ \A t \in all_tiles : is_number_tile(t) \/ is_honor_tile(t)
     /\ Cardinality(number_suits) = 1
     /\ \E t \in all_tiles : is_honor_tile(t)

is_duiduihu(all_sets) ==
  /\ \A i \in DOMAIN all_sets : is_triplet(all_sets[i])
  /\ Len(all_sets) = 5

is_pinghu(all_sets, pair, full_hand, melds, is_self_draw, is_two_sided_wait) ==
  /\ melds = <<>>
  /\ ~is_self_draw
  /\ is_two_sided_wait
  /\ \A t \in all_tiles_of(full_hand, melds) : is_number_tile(t)
  /\ pair # <<>> /\ is_number_tile(pair[1])
  /\ Len(all_sets) = 5
  /\ \A i \in DOMAIN all_sets : is_sequence(all_sets[i])

\* Discard win: the non-discarders pay nothing.
compute_payments_discarder_only(gs, winner_idx, total_tai, is_self_draw, discarder_idx) ==
  LET lazhuang == gs.players[gs.dealer_index].streak
      amount == [i \in Seats \ {winner_idx} |->
                   IF is_self_draw \/ i = discarder_idx
                   THEN total_tai + lazhuang ELSE 0]
  IN [i \in Seats |->
        IF i = winner_idx THEN 0 - Sum(amount, Seats \ {winner_idx})
        ELSE amount[i]]

\* _compute_payments: the dict as a function of the player index.
compute_payments(gs, winner_idx, total_tai, is_self_draw, discarder_idx) ==
  LET lazhuang == gs.players[gs.dealer_index].streak
      amount == [i \in Seats \ {winner_idx} |->
                   IF is_self_draw \/ i = discarder_idx
                   THEN total_tai + lazhuang ELSE lazhuang]
      total_received == Sum(amount, Seats \ {winner_idx})
  IN [i \in Seats |-> IF i = winner_idx THEN 0 - total_received ELSE amount[i]]

\* yaku.append((name, tai)) under a condition.
yaku_if(cond, name, tai) == IF cond THEN << <<name, tai>> >> ELSE <<>>

has_yaku(yaku, names) == \E i \in DOMAIN yaku : yaku[i][1] \in names

\* min(subtotal, MAX_TAI) left out.
cap_total_uncapped(subtotal) == subtotal

\* total = min(subtotal, MAX_TAI)
cap_total(subtotal) == Min(subtotal, MAX_TAI)

\* score_hand; decomp is {} for None, flags the set of the keyword flags that
\* are True.  The result is the ScoringResult.
score_hand(gs, winner_idx, win_tile, win_type, hand, melds, flowers, decomp, discarder_idx, flags) ==
  LET player == gs.players[winner_idx]
      seat_wind == SEAT_WINDS[player.seat + 1]
      round_wind == gs.round_wind
      is_self_draw == win_type = "self_draw"
      open_melds == SelectSeq(melds, LAMBDA m :
                      m.type \in {"chi", "pong", "open_kong", "added_kong"})
      is_concealed == Len(open_melds) = 0
      full_hand == Append(hand, win_tile)
      has_decomp == decomp # {}
      d == CHOOSE x \in decomp : TRUE
      sets == IF has_decomp THEN d.sets ELSE <<>>
      pair == IF has_decomp THEN d.pair ELSE <<>>
      all_sets == sets \o [i \in DOMAIN melds |->
                             SubSeq(melds[i].tiles, 1, Min(3, Len(melds[i].tiles)))]
      wind_triplet_count == count_wind_triplets(all_sets)
      wind_in_pair == pair # <<>> /\ Len(pair) = 2 /\ is_wind_tile(pair[1])
      dragon_triplet_count == count_dragon_triplets(all_sets)
      concealed_kong_count ==
        Cardinality({i \in DOMAIN melds : melds[i].type = "concealed_kong"})
      concealed_triplet_count ==
        count_concealed_triplets(sets, is_self_draw, win_tile) + concealed_kong_count
      y16 ==
        yaku_if("is_tianhu" \in flags, "tianhu", 16)
        \o yaku_if("is_dihu" \in flags, "dihu", 16)
        \o yaku_if("is_renhu" \in flags, "renhu", 16)
        \o yaku_if(wind_triplet_count = 4, "dasixi", 16)
        \o yaku_if(has_decomp /\ all_honors(full_hand, melds), "ziyise", 16)
      y8 ==
        y16
        \o yaku_if("is_peipai_huahu" \in flags, "peipai_huahu", 12)
        \o yaku_if("is_tianting" \in flags, "tianting", 8)
        \o yaku_if("is_bajian_guohai" \in flags, "bajian_guohai", 8)
        \o yaku_if("is_qiqiang_yi" \in flags, "qiqiang_yi", 8)
        \o yaku_if(dragon_triplet_count = 3, "dasanyuan", 8)
        \o yaku_if(wind_triplet_count = 3 /\ wind_in_pair, "xiaosixi", 8)
        \o yaku_if(has_decomp /\ is_qingyise(full_hand, melds), "qingyise", 8)
        \o yaku_if(concealed_triplet_count >= 5, "wuanke", 8)
      y5 ==
        y8 \o yaku_if(concealed_triplet_count = 4 /\ ~has_yaku(y8, {"wuanke"}),
                      "sianke", 5)
      y4 ==
        y5
        \o yaku_if("is_diting" \in flags, "diting", 4)
        \o yaku_if(has_decomp /\ is_duiduihu(all_sets), "duiduihu", 4)
        \o yaku_if(dragon_triplet_count = 2 /\ pair # <<>> /\ is_dragon_tile(pair[1]),
                   "xiaosanyuan", 4)
      y4b ==
        y4 \o yaku_if(has_decomp /\ is_hunyise(full_hand, melds)
                        /\ ~has_yaku(y4, {"qingyise", "ziyise"}), "couyise", 4)
      buqiu == is_concealed /\ is_self_draw
      season_count == Cardinality({i \in DOMAIN flowers : Contains(SEASON_FLOWERS, flowers[i])})
      plant_count == Cardinality({i \in DOMAIN flowers : Contains(PLANT_FLOWERS, flowers[i])})
      dealer == gs.players[gs.dealer_index]
      seat_flowers == own_seat_flowers(player.seat)
      own_flowers == Cardinality({i \in DOMAIN flowers : flowers[i] \in seat_flowers})
      yaku ==
        y4b
        \o yaku_if(concealed_triplet_count = 3 /\ ~has_yaku(y4b, {"sianke", "wuanke"}),
                   "sananke", 2)
        \o yaku_if(buqiu, "buqiu", 2)
        \o yaku_if(has_decomp /\ is_pinghu(all_sets, pair, full_hand, melds, is_self_draw,
                                           "is_two_sided_wait" \in flags), "pinghu", 2)
        \o yaku_if(Len(open_melds) = 4 /\ ~is_self_draw, "quanqiu", 2)
        \o yaku_if(season_count = 4, "huagang", 2)
        \o yaku_if(plant_count = 4, "huagang", 2)
        \o yaku_if(player.is_dealer, "zuozhuang", 1)
        \o yaku_if(dealer.streak > 0, "lianzhuang", dealer.streak)
        \o yaku_if(is_concealed /\ ~is_self_draw /\ ~buqiu, "menqing", 1)
        \o yaku_if(is_self_draw /\ ~buqiu, "zimo", 1)
        \o yaku_if(has_triplet_of(all_sets, seat_wind), "fengpai", 1)
        \o yaku_if(has_triplet_of(all_sets, round_wind), "fengquan", 1)
        \o yaku_if(has_triplet_of(all_sets, 34), "jianzikan", 1)
        \o yaku_if(has_triplet_of(all_sets, 35), "jianzikan", 1)
        \o yaku_if(has_triplet_of(all_sets, 36), "jianzikan", 1)
        \o [i \in 1..own_flowers |-> <<"huapai", 1>>]
        \o yaku_if("is_qiangang" \in flags, "qiangang", 1)
        \o yaku_if("is_gangshang" \in flags, "gangshang_kaihua", 1)
        \o yaku_if("is_haidi" \in flags,
                   IF is_self_draw THEN "haidi_laoyue" ELSE "hedi_laoyu", 1)
      tai_sum == Sum([i \in DOMAIN yaku |-> yaku[i][2]], DOMAIN yaku)
      subtotal == IF tai_sum = 0 THEN 1 ELSE tai_sum
      total == cap_total(subtotal)
  IN [fn |-> "score_hand",
      yaku |-> yaku,
      subtotal |-> subtotal,
      total |-> total,
      payments |-> compute_payments(gs, winner_idx, total, is_self_draw, discarder_idx)]

(***************************************************************************)
(* score_hand on a bounded family of winning inputs                        *)
(***************************************************************************)
\* The keyword flags of score_hand.
ScoreFlags ==
  {"is_two_sided_wait", "is_qiangang", "is_gangshang", "is_haidi", "is_diting",
   "is_tianting", "is_tianhu", "is_dihu", "is_renhu", "is_qiqiang_yi",
   "is_bajian_guohai", "is_peipai_huahu"}

Meld(type, tiles, from_player) ==
  [type |-> type, tiles |-> tiles, from_player |-> from_player]

\* tests/test_scorer.py test_duiduihu_4tai: five triplets and the pair 9s.
DuiduihuHand ==
  [hand |-> <<1, 1, 1, 2, 2, 2, 3, 3, 3, 4, 4, 4, 29, 29, 5, 5>>,
   win_tile |-> 5, melds |-> <<>>]

\* tests/test_scorer.py test_menqing_1tai: 15 + 1 tiles, decomp is None.
MenqingHand ==
  [hand |-> <<1, 2, 3, 4, 5, 6, 7, 8, 9, 11, 12, 13, 14, 15, 16>>,
   win_tile |-> 21, melds |-> <<>>]

\* tests/test_scorer.py test_menqing_not_awarded_with_open_meld.
OpenMeldHand ==
  [hand |-> <<1, 2, 3, 4, 5, 6, 7, 8, 9, 11, 12, 13>>,
   win_tile |-> 14, melds |-> << Meld("pong", <<21, 21, 21>>, 2) >>]

\* Four wind triplets, a dragon triplet and a dragon pair.
HonorHand ==
  [hand |-> <<30, 30, 30, 31, 31, 31, 32, 32, 32, 33, 33, 33, 34, 34, 34, 35>>,
   win_tile |-> 35, melds |-> <<>>]

\* Five runs and the pair 1s, won on 6p.
PinghuHand ==
  [hand |-> <<1, 2, 3, 4, 5, 6, 7, 8, 9, 11, 12, 13, 14, 15, 21, 21>>,
   win_tile |-> 16, melds |-> <<>>]

\* Four open melds, one of them a kong.
AllOpenHand ==
  [hand |-> <<11, 11, 11, 29>>,
   win_tile |-> 29,
   melds |-> << Meld("pong", <<34, 34, 34>>, 2), Meld("open_kong", <<35, 35, 35, 35>>, 3),
                Meld("chi", <<1, 2, 3>>, 0), Meld("added_kong", <<30, 30, 30, 30>>, 2) >>]

\* Two kongs of dragons, one of them concealed, and a third dragon triplet.
KongHand ==
  [hand |-> <<35, 35, 35, 1, 1, 1, 2, 3, 4, 5>>,
   win_tile |-> 5,
   melds |-> << Meld("concealed_kong", <<36, 36, 36, 36>>, None),
                Meld("added_kong", <<34, 34, 34, 34>>, 1) >>]

ScoreHands ==
  {DuiduihuHand, MenqingHand, OpenMeldHand, HonorHand, PinghuHand, AllOpenHand,
   KongHand}

ScoreFlowers == {<<>>, <<41, 42, 43, 44, 45>>, <<42, 46, 47>>}

\* Dealer streaks, up to far beyond MAX_TAI.
Streaks == {0, 3, 100}

\* tests/test_scorer.py make_gs.
make_gs(dealer_idx, streak, round_wind) ==
  [round_wind |-> round_wind,
   dealer_index |-> dealer_idx,
   players |-> [p \in Seats |->
                  [seat |-> p, is_dealer |-> p = dealer_idx,
                   streak |-> IF p = dealer_idx THEN streak ELSE 0]]]

\* The arguments of one score_hand call; decomp is
\* decompose_hand(hand + [win_tile], melds), as every caller passes it.
ScoreArgs(gs, winner_idx, win_type, h, flowers, discarder_idx, flags) ==
  [fn |-> "score_hand", gs |-> gs, winner_idx |-> winner_idx,
   win_tile |-> h.win_tile, win_type |-> win_type, hand |-> h.hand,
   melds |-> h.melds, flowers |-> flowers,
   decomp |-> decompose_hand(Append(h.hand, h.win_tile), h.melds),
   discarder_idx |-> discarder_idx, flags |-> flags]

\* Who discarded: nobody on a self-draw; on a discard win another seat, or
\* None as training/env.py leaves it.
Discarders(winner_idx, win_type) ==
  IF win_type = "self_draw" THEN {None}
  ELSE (Seats \ {winner_idx}) \cup {None}

InitScore ==
  \/ \E h \in ScoreHands, flowers \in ScoreFlowers, round_wind \in {30, 31},
        dealer_idx \in Seats, streak \in Streaks, winner_idx \in Seats,
        win_type \in {"self_draw", "discard"},
        flags \in {{}, {"is_two_sided_wait"}} :
       \E discarder_idx \in Discarders(winner_idx, win_type) :
         InitCall(ScoreArgs(make_gs(dealer_idx, streak, round_wind), winner_idx,
                            win_type, h, flowers, discarder_idx, flags))
  \/ \E streak \in {0, 100}, flags \in SUBSET ScoreFlags,
        win_type \in {"self_draw", "discard"} :
       InitCall(ScoreArgs(make_gs(0, streak, 30), 1, win_type, HonorHand, <<>>,
                          IF win_type = "self_draw" THEN None ELSE 2, flags))

ScoreHand ==
  /\ args.fn = "score_hand"
  /\ Returns(args, score_hand(args.gs, args.winner_idx, args.win_tile, args.win_type,
                              args.hand, args.melds, args.flowers, args.decomp,
                              args.discarder_idx, args.flags))

NextScore == ScoreHand

SpecScore == InitScore /\ [][NextScore]_vars

(***************************************************************************)
(* ai/shanten.py: tenpai_tiles                                             *)
(***************************************************************************)
\* The order of Python's sorted() on tile codes: "1m" < "1p" < "1s" < "2m"
\* < ... < "9s" < "B" < "C" < "E" < "F" < "N" < "S" < "W" < "f1" < ... < "f8".
py_sort_key(tile) ==
  IF is_number_tile(tile) THEN 3 * tile_value(tile) + tile_suit(tile)
  ELSE IF tile \in HONORS
       THEN 40 + (CHOOSE i \in 1..7 : <<36, 34, 30, 35, 33, 31, 32>>[i] = tile)
  ELSE 50 + tile

\* sorted(seq) without a key
py_sorted(seq) == SortSeq(seq, LAMBDA a, b : py_sort_key(a) < py_sort_key(b))

\* sorted(S) of a set S of tiles
RECURSIVE sorted_set(_)
sorted_set(tiles) ==
  IF tiles = {} THEN <<>>
  ELSE LET first == CHOOSE t \in tiles :
                      \A u \in tiles : py_sort_key(t) <= py_sort_key(u)
       IN <<first>> \o sorted_set(tiles \ {first})

\* The candidates are the number tiles only.
all_tile_types_numbers == sorted_set(NumberTiles)

\* sorted(set(build_full_deck()) - set(FLOWERS))
all_tile_types == sorted_set(ToSet(build_full_deck) \ FLOWERS)

tenpai_tiles(hand, melds) ==
  IF shanten_number(hand, melds) # 0 THEN <<>>
  ELSE SelectSeq(all_tile_types,
                 LAMBDA t : is_standard_win(py_sorted(Append(hand, t)), melds))

(***************************************************************************)
(* decompose_hand, is_standard_win, shanten_number and tenpai_tiles on a   *)
(* bounded family of hands                                                 *)
(***************************************************************************)
\* k declared melds (only their number matters to the four functions).
MeldsOf(k) ==
  SubSeq(<< Meld("pong", <<36, 36, 36>>, 0), Meld("pong", <<35, 35, 35>>, 0),
            Meld("pong", <<34, 34, 34>>, 0), Meld("chi", <<21, 22, 23>>, 0),
            Meld("open_kong", <<33, 33, 33, 33>>, 0) >>, 1, k)

\* 8m 9m 1p 2p 3p: a run, and two tiles below it in another suit.
RunTiles == <<8, 9, 11, 12, 13>>

\* 9s E S W: no three of them are a run.
HonorTiles == <<29, 30, 31, 32>>

\* The hands of at most MaxSmall tiles over a few tile types, as count vectors.
MaxSmall == 8

CountVectors(tiles) ==
  {c \in [ToSet(tiles) -> 0..4] : Sum(c, ToSet(tiles)) \in 0..MaxSmall}

\* The list with c[t] copies of every tile t, in the order of tiles.
RECURSIVE spread(_, _)
spread(c, tiles) ==
  IF tiles = <<>> THEN <<>>
  ELSE [i \in 1..c[Head(tiles)] |-> Head(tiles)] \o spread(c, Tail(tiles))

\* The elements of seq at the odd places, then those at the even places.
Interleave(seq) ==
  [i \in 1..Len(seq) |->
     IF i <= (Len(seq) + 1) \div 2 THEN seq[2 * i - 1]
     ELSE seq[2 * (i - (Len(seq) + 1) \div 2)]]

\* Three orders of one hand.
Orders(hand) == {hand, reversed(hand), Interleave(hand)}

\* How many melds go with a hand of this size: the k with
\* 3 * (5 - k) + 1 <= size <= 3 * (5 - k) + 3.
MeldCount(size) == IF size = 0 THEN 5 ELSE 5 - (size - 1) \div 3

SmallHands ==
  UNION {UNION {Orders(spread(c, tiles)) : c \in CountVectors(tiles)} :
           tiles \in {RunTiles, HonorTiles}}

\* 16 tiles of which no two are equal, adjacent or one apart.
IsolatedHand == <<1, 4, 7, 11, 14, 17, 21, 24, 27, 30, 31, 32, 33, 34, 35, 36>>

\* tests/test_shanten.py test_high_shanten_disconnected_hand
DisconnectedHand == <<1, 3, 5, 7, 9, 11, 13, 15, 17, 19, 30, 31, 32, 33, 34, 35>>

\* 1m to 4m four times each.
FourOfEachHand == <<1, 1, 1, 1, 2, 2, 2, 2, 3, 3, 3, 3, 4, 4, 4, 4>>

\* The 16- and 17-tile hands that go with no meld.
FullHands ==
  {IsolatedHand, DisconnectedHand, FourOfEachHand, DuiduihuHand.hand,
   PinghuHand.hand, HonorHand.hand}

\* hand with the tile at place i replaced by t
Replaced(hand, i, t) == [hand EXCEPT ![i] = t]

\* A full hand, one tile of it replaced, or one tile added to it.
BigHands ==
  FullHands
    \cup {Replaced(h, i, t) : h \in FullHands, i \in {1, 9, 16}, t \in {5, 29, 30}}
    \cup {Append(h, t) : h \in FullHands, t \in {5, 16, 21, 29, 35}}

\* The hands of the scored melded hands, before and after the winning tile.
MeldedInputs ==
  UNION {{[fn |-> "hand", hand |-> h.hand, melds |-> h.melds],
          [fn |-> "hand", hand |-> Append(h.hand, h.win_tile), melds |-> h.melds]} :
           h \in {OpenMeldHand, AllOpenHand, KongHand}}

\* A hand with the number of melds its size goes with, and the small hands
\* also with four melds whatever their size.
HandInputs ==
  {[fn |-> "hand", hand |-> h, melds |-> MeldsOf(MeldCount(Len(h)))] :
     h \in SmallHands \cup BigHands}
    \cup {[fn |-> "hand", hand |-> h, melds |-> MeldsOf(k)] :
            h \in {spread(c, RunTiles) : c \in CountVectors(RunTiles)}, k \in {4}}
    \cup MeldedInputs

InitHand == \E a \in HandInputs : InitCall(a)

\* The list hand sorted in place instead of copied.
decompose_hand_call_in_place(hand, melds) ==
  [hand |-> sorted(hand),
   value |-> find_decomposition(sorted(hand), 5 - Len(melds), <<>>)]

\* decompose_hand(hand, melds): what it returns, and what the caller's list
\* hand holds afterwards.
decompose_hand_call(hand, melds) ==
  [hand |-> hand, value |-> decompose_hand(hand, melds)]

DecomposeHand ==
  /\ args.fn = "hand"
  /\ LET r == decompose_hand_call(args.hand, args.melds)
     IN Returns([args EXCEPT !.hand = r.hand],
                [fn |-> "decompose_hand", value |-> r.value])

IsStandardWin ==
  /\ args.fn = "hand"
  /\ Returns(args, [fn |-> "is_standard_win",
                    value |-> is_standard_win(args.hand, args.melds)])

ShantenNumber ==
  /\ args.fn = "hand"
  /\ LET r == shanten_search(args.hand, args.melds)
     IN Returns(args, [fn |-> "shanten_number", value |-> r.best, counts |-> r.counts])

TenpaiTiles ==
  /\ args.fn = "hand"
  /\ Returns(args, [fn |-> "tenpai_tiles", value |-> tenpai_tiles(args.hand, args.melds)])

NextHand == DecomposeHand \/ IsStandardWin \/ ShantenNumber \/ TenpaiTiles

SpecHand == InitHand /\ [][NextHand]_vars

(***************************************************************************)
(* Tile accounting                                                         *)
(***************************************************************************)
\* How many copies of tile t lie in the meld tiles of seat p.
MeldOccurrences(p, t) ==
  LET melds == players[p].melds
  IN Sum([i \in DOMAIN melds |-> Count(melds[i].tiles, t)], DOMAIN melds)

\* How many copies of tile t lie in the hands, melds, flower areas, discard
\* pool, draw wall and back wall together.
Occurrences(t) ==
  Sum([p \in Seats |-> Count(players[p].hand, t) + Count(players[p].flowers, t)
                         + MeldOccurrences(p, t)], Seats)
    + Count(discard_pool, t) + Count(wall, t) + Count(wall_back, t)

\* The number of tiles in the same places.
TotalTiles ==
  Sum([p \in Seats |->
         Len(players[p].hand) + Len(players[p].flowers)
           + Sum([i \in DOMAIN players[p].melds |-> Len(players[p].melds[i].tiles)],
                 DOMAIN players[p].melds)], Seats)
    + Len(discard_pool) + Len(wall) + Len(wall_back)

\* Melds made from a claimed discard: the ones that record a from_player.
ClaimedMelds ==
  Sum([p \in Seats |->
         Cardinality({i \in DOMAIN players[p].melds :
                        players[p].melds[i].from_player # None})], Seats)

MeldsOfType(p, types) ==
  Cardinality({i \in DOMAIN players[p].melds : players[p].melds[i].type \in types})

\* A step() call has just been made from the unprimed state.
Stepped == nsteps' = nsteps + 1

(***************************************************************************)
(* C1 (as stated): in every state reached by legal steps the tiles of the  *)
(* hands, melds, flower areas, discard pool and both walls are exactly the *)
(* 144-tile deck.                                                          *)
(***************************************************************************)
C1_ExactDeck == \A t \in AllTiles : Occurrences(t) = DeckCount(t)

(***************************************************************************)
(* C1: in every state reached by legal steps no tile of the deck is        *)
(* missing from the hands, melds, flower areas, discard pool and walls,    *)
(* and the total is 144 plus the number of melds that record a             *)
(* from_player: a claimed discard stays in the discard pool and is also    *)
(* part of the meld.                                                       *)
(***************************************************************************)
C1_TileConservation ==
  /\ \A t \in AllTiles : Occurrences(t) >= DeckCount(t)
  /\ TotalTiles = 144 + ClaimedMelds

\* A discard has been claimed: some meld records a from_player.
C1_Witness == ClaimedMelds >= 1 /\ TotalTiles > 144

(***************************************************************************)
(* C2 (as stated): a claim executed in a claim window is never outranked   *)
(* (win > open_kong > pong > chi) by a claim in another player's           *)
(* legal-action list.                                                      *)
(***************************************************************************)
C2_ClaimPriority ==
  [][(phase = "play" /\ sub_phase = "claim" /\ Stepped
        /\ last_step'.type \in {"win", "open_kong", "pong", "chi"})
     => \A q \in Seats \ {last_step'.player_idx} :
          \A b \in get_legal_actions(S, q) :
            CLAIM_PRIORITY(b.type) <= CLAIM_PRIORITY(last_step'.type)]_vars

(***************************************************************************)
(* C4 (as stated): in a play state with no claim pending every player has  *)
(* |hand| + 3*(chi and pong melds) + 4*(kong melds) = 16, and 17 for the   *)
(* player who has just drawn.                                              *)
(***************************************************************************)
C4_KongsCountFour ==
  (phase = "play" /\ sub_phase = "active_turn") =>
    \A p \in Seats :
      Len(players[p].hand) + 3 * MeldsOfType(p, {"chi", "pong"})
          + 4 * MeldsOfType(p, KongTypes)
        = IF p = current_player /\ just_drew THEN 17 ELSE 16

(***************************************************************************)
(* C4: in a play state with no claim pending every player has              *)
(* |hand| + 3*(melds of any type) = 16, and 17 for the current player once *)
(* it has drawn, claimed or taken a replacement tile: a kong counts three, *)
(* its fourth tile is made up by the replacement draw.                     *)
(***************************************************************************)
C4_HandSize ==
  (phase = "play" /\ sub_phase = "active_turn") =>
    \A p \in Seats :
      Len(players[p].hand) + 3 * Len(players[p].melds)
        = IF p = current_player /\ just_drew THEN 17 ELSE 16

\* A kong has just been declared and its replacement tile taken.
C4_Witness ==
  /\ phase = "play" /\ sub_phase = "active_turn"
  /\ last_step.type \in KongTypes
  /\ MeldsOfType(current_player, KongTypes) >= 1

(***************************************************************************)
(* C6: in a claim window a chi action is in get_legal_actions(p) only for  *)
(* p = (discarder + 1) mod 4, and only with a combo that is a run of three *)
(* consecutive values of one suit, contains the pending discard, and whose *)
(* two other tiles are in p's hand.                                        *)
(***************************************************************************)
IsRunWith(combo, discard, hand) ==
  /\ Len(combo) = 3
  /\ \A k \in 1..3 : combo[k] \in NumberTiles
  /\ combo[2] = combo[1] + 1 /\ combo[3] = combo[2] + 1
  /\ \E k \in 1..3 : combo[k] = discard
  /\ \A k \in 1..3 : combo[k] # discard => \E i \in DOMAIN hand : hand[i] = combo[k]

C6_ChiRestriction ==
  (phase = "play" /\ sub_phase = "claim") =>
    \A p \in Seats :
      \A a \in get_legal_actions(S, p) :
        a.type = "chi" =>
          /\ p = (pending_discarder + 1) % 4
          /\ a.tile = pending_discard
          /\ IsRunWith(a.combo, pending_discard, players[p].hand)

\* The next player is offered a chi while another non-discarder, who is
\* offered none, also holds two tiles that make a run with the discard.
C6_Witness ==
  /\ phase = "play" /\ sub_phase = "claim"
  /\ \E a \in get_legal_actions(S, (pending_discarder + 1) % 4) : a.type = "chi"
  /\ \E q \in Seats \ {pending_discarder, (pending_discarder + 1) % 4} :
       /\ validate_chi(players[q].hand, pending_discard)
       /\ q \notin passed_players

(***************************************************************************)
(* C7: a hand driven by arbitrary legal actions is over (phase win or      *)
(* draw) after at most 500 steps.  Rank bounds the steps still possible:   *)
(* five per tile left in the two walls, five per set a player can still    *)
(* meld, and the position within the current turn; start_hand leaves at    *)
(* most 79 wall tiles and 20 sets to meld, a rank of 500.  Every play      *)
(* state has a legal action, every step lowers the rank, and steps taken   *)
(* plus rank never exceed 500.                                             *)
(***************************************************************************)
max_moves == 500

Rank ==
  IF phase # "play" THEN 0
  ELSE 5 * (Len(wall) + Len(wall_back))
         + 5 * Sum([p \in Seats |-> 5 - Len(players[p].melds)], Seats)
         + (IF sub_phase = "claim" THEN 4 - Cardinality(passed_players)
            ELSE IF just_drew THEN 5 ELSE 1)

StepsBounded ==
  /\ nsteps + Rank <= max_moves
  /\ phase = "play" => (Rank >= 1 /\ LegalActions(S) # {})

C7_Termination == []StepsBounded /\ [][Stepped => Rank' < Rank]_vars

\* A hand played to the end of the wall.
C7_Witness ==
  phase = "draw" /\ wall = <<>> /\ nsteps > WallLow.nsteps /\ nsteps <= max_moves

(***************************************************************************)
(* C9: a draw step taken in an active turn with the draw wall empty sets   *)
(* the phase to draw and moves no tile, and afterwards no player has a     *)
(* legal action.                                                           *)
(***************************************************************************)
C9_WallExhaustion ==
  [][(phase = "play" /\ sub_phase = "active_turn" /\ wall = <<>>
        /\ Stepped /\ last_step'.type = "draw")
     => /\ phase' = "draw"
        /\ UNCHANGED << players, wall, wall_back, discard_pool >>
        /\ LegalActions(S)' = {}]_vars

\* The hand has ended on a draw step.  After WallLow the back wall is empty
\* and the only flower left in the wall is followed by a plain tile, so a
\* draw step ends the hand only by finding the wall empty.
C9_Witness ==
  /\ phase = "draw" /\ last_step.type = "draw"
  /\ wall = <<>> /\ wall_back = <<>> /\ nsteps > WallLow.nsteps

(***************************************************************************)
(* C10: a replacement draw (after a kong, or after a draw step turned up a *)
(* flower) takes tiles from the head of the back wall while it has any and *)
(* then from the head of the draw wall: flowers go to the flower area and  *)
(* the first plain tile to the hand; when the walls run out first, both    *)
(* are empty, the phase is draw and no exception is raised.                *)
(***************************************************************************)
\* The tiles a replacement draw can take, in order, and the outcome of
\* taking them for seat p whose flower area held flowersBefore.
ReplacementOutcome(p, flowersBefore, backBefore, wallBefore) ==
  LET R == backBefore \o wallBefore
      plain == {k \in DOMAIN R : ~is_flower_tile(R[k])}
  IN IF plain = {}
     THEN /\ wall_back' = <<>> /\ wall' = <<>>
          /\ phase' = "draw" /\ exc' = "none"
          /\ players'[p].flowers = flowersBefore \o R
     ELSE LET k == CHOOSE i \in plain : \A j \in plain : i <= j
              nb == Len(backBefore)
          IN /\ wall_back' = SubSeq(backBefore, k + 1, nb)
             /\ wall' = (IF k <= nb THEN wallBefore
                         ELSE SubSeq(wallBefore, k - nb + 1, Len(wallBefore)))
             /\ players'[p].flowers = flowersBefore \o SubSeq(R, 1, k - 1)
             /\ players'[p].hand[Len(players'[p].hand)] = R[k]
             /\ phase' = "play" /\ exc' = "none"

C10_ReplacementDraw ==
  [][(phase = "play" /\ Stepped)
     => /\ last_step'.type \in KongTypes =>
             ReplacementOutcome(current_player', players[current_player'].flowers,
                                wall_back, wall)
        /\ (last_step'.type = "draw" /\ wall # <<>> /\ is_flower_tile(Head(wall))) =>
             ReplacementOutcome(current_player,
                                Append(players[current_player].flowers, Head(wall)),
                                wall_back, Tail(wall))]_vars

\* A kong declared after WallLow, when the back wall is already empty: its
\* replacement tile has come from the draw wall.
C10_Witness ==
  /\ last_step.type \in KongTypes /\ last_action = "replacement_draw"
  /\ wall_back = <<>> /\ nsteps > WallLow.nsteps

(***************************************************************************)
(* C3 (as stated): a step() call with an action that is in no player's     *)
(* legal-action list leaves the whole session state as it was.             *)
(***************************************************************************)
C3_IllegalStepIgnored ==
  [][(Stepped /\ last_step' \notin LegalActions(S)) => UNCHANGED sessionVars]_vars

(***************************************************************************)
(* C8: once the phase is win or draw, get_legal_actions is empty for every *)
(* player and a step() call with any action leaves the whole session state *)
(* as it was, so the phase stays win or draw.                              *)
(***************************************************************************)
C8_TerminalReadOnly ==
  [][(phase \in {"win", "draw"})
     => /\ \A p \in Seats : get_legal_actions(S, p) = {}
        /\ UNCHANGED sessionVars]_vars

\* The hand is won and a discard has been submitted afterwards.
C8_Witness == phase = "win" /\ last_step.type = "discard"

(***************************************************************************)
(* C5 (as stated): when two or more non-discarders can win on the same     *)
(* discard and the claim window ends in a win, the win step is the one of  *)
(* the candidate closest counter-clockwise from the discarder, the seat p  *)
(* with the smallest (p - discarder) mod 4, and that seat is the player of *)
(* the manager's win event.                                                *)
(***************************************************************************)
Winners == {p \in Seats : \E a \in get_legal_actions(S, p) : a.type = "win"}

Distance(p) == (p - pending_discarder + 4) % 4

C5_ClosestSeatWins ==
  [][(phase = "play" /\ sub_phase = "claim" /\ Cardinality(Winners) >= 2
        /\ phase' = "win")
     => /\ \A q \in Winners : Distance(last_step'.player_idx) <= Distance(q)
        /\ last_event'.player = last_step'.player_idx]_vars

(***************************************************************************)
(* C11: a pass step in a claim window returns the session to active_turn   *)
(* only when it is the pass of the third non-discarder: then the current   *)
(* player is (discarder + 1) mod 4, the pending discard and the passed set *)
(* are cleared and that player's legal actions are exactly {draw}, nobody  *)
(* else having any.  After the first and the second pass, whoever passes,  *)
(* the sub-phase is still claim, the current player and the pending        *)
(* discard are as before and the passer is recorded.                       *)
(***************************************************************************)
C11_AllPassed ==
  [][(phase = "play" /\ sub_phase = "claim" /\ Stepped /\ last_step'.type = "pass")
     => LET passer == last_step'.player_idx
            passed == passed_players \cup {passer}
        IN /\ passer \in Seats \ (passed_players \cup {pending_discarder})
           /\ phase' = "play"
           /\ IF Cardinality(passed) < 3
              THEN /\ sub_phase' = "claim"
                   /\ passed_players' = passed
                   /\ UNCHANGED << current_player, pending_discard, pending_discarder >>
              ELSE /\ sub_phase' = "active_turn"
                   /\ current_player' = (pending_discarder + 1) % 4
                   /\ pending_discard' = None
                   /\ passed_players' = {}
                   /\ get_legal_actions(S, current_player)'
                        = {Action("draw", None, <<>>, None)}
                   /\ \A q \in Seats \ {current_player'} :
                        get_legal_actions(S, q)' = {}]_vars

\* The third pass has just closed a claim window.
C11_Witness ==
  /\ phase = "play" /\ sub_phase = "active_turn"
  /\ last_step.type = "pass" /\ last_action = "pass"
  /\ passed_players = {} /\ pending_discard = None
  /\ get_legal_actions(S, current_player) = {Action("draw", None, <<>>, None)}

(***************************************************************************)
(* C12 (as stated): after a chi or pong step taken from a player's         *)
(* legal-action list, and until the next step, that player is the current  *)
(* player in sub-phase active_turn, its legal actions are discards only    *)
(* (no draw, no win, no kong declaration) and no other player has a legal  *)
(* action.                                                                 *)
(***************************************************************************)
C12_MustDiscardAfterClaim ==
  (phase = "play" /\ last_step.type \in {"chi", "pong"})
    => /\ sub_phase = "active_turn"
       /\ current_player = last_step.player_idx
       /\ get_legal_actions(S, current_player) # {}
       /\ \A a \in get_legal_actions(S, current_player) : a.type = "discard"
       /\ \A q \in Seats \ {current_player} : get_legal_actions(S, q) = {}

(***************************************************************************)
(* C13: in every play state reached by legal steps, in sub-phase           *)
(* active_turn no player other than current_player has a legal action; in  *)
(* a claim window the discarder and every player who has passed have none. *)
(***************************************************************************)
C13_OneActor ==
  phase = "play" =>
    /\ sub_phase = "active_turn" =>
         \A q \in Seats \ {current_player} : get_legal_actions(S, q) = {}
    /\ sub_phase = "claim" =>
         /\ pending_discarder \in Seats
         /\ get_legal_actions(S, pending_discarder) = {}
         /\ \A q \in passed_players : get_legal_actions(S, q) = {}

\* A claim window in which somebody has passed and somebody else can still
\* claim the discard.
C13_Witness ==
  /\ phase = "play" /\ sub_phase = "claim" /\ passed_players # {}
  /\ \E q \in Seats : \E a \in get_legal_actions(S, q) : a.type # "pass"

(***************************************************************************)
(* C14 (as stated): after a win step taken from a player's legal-action    *)
(* list, current_player is the index of that player, for a self-drawn win  *)
(* and for a win on another player's discard alike.                        *)
(***************************************************************************)
C14_WinnerIsCurrent ==
  [][(phase = "play" /\ Stepped /\ last_step'.type = "win")
     => \A p \in Seats :
          last_step' \in get_legal_actions(S, p) => current_player' = p]_vars

(***************************************************************************)
(* C18: concealed kong.  FirstPlain(R) is the position of the first tile   *)
(* of R that is no flower (0 when there is none); KongTaken(p, t, R, k)    *)
(* says that seat p has lost four copies of t from its hand, gained one    *)
(* concealed_kong meld of four tiles with no from_player, put the flowers  *)
(* R[1..k-1] in its flower area and the tile R[k] in its hand, and that    *)
(* the current player, p's discards and the other players are unchanged.   *)
(***************************************************************************)
FirstPlain(R) ==
  LET plain == {k \in DOMAIN R : ~is_flower_tile(R[k])}
  IN IF plain = {} THEN 0 ELSE CHOOSE i \in plain : \A j \in plain : i <= j

KongTaken(p, t, R, k) ==
  /\ players'[p].hand = Append(RemoveN(players[p].hand, t, 4), R[k])
  /\ Count(players[p].hand, t) = 4
  /\ players'[p].melds
       = Append(players[p].melds,
                [type |-> "concealed_kong", tiles |-> <<t, t, t, t>>,
                 from_player |-> None])
  /\ players'[p].flowers = players[p].flowers \o SubSeq(R, 1, k - 1)
  /\ players'[p].discards = players[p].discards
  /\ current_player' = p
  /\ \A q \in Seats \ {p} : players'[q] = players[q]
  /\ UNCHANGED discard_pool

(***************************************************************************)
(* C18 (as stated): a concealed_kong step on a tile the current player     *)
(* holds four times removes the four copies, appends the meld and draws    *)
(* from the back wall until a tile that is no flower is drawn: the flowers *)
(* drawn go to the flower area and exactly one other tile to the hand; the *)
(* draw wall, the current player and the other players are unchanged.      *)
(***************************************************************************)
C18_KongDrawsFromBack ==
  [][(phase = "play" /\ Stepped /\ last_step'.type = "concealed_kong")
     => LET k == FirstPlain(wall_back)
        IN /\ k > 0
           /\ KongTaken(current_player, last_step'.tile, wall_back, k)
           /\ wall_back' = SubSeq(wall_back, k + 1, Len(wall_back))
           /\ wall' = wall]_vars

(***************************************************************************)
(* C18: a concealed_kong step on a tile the current player holds four      *)
(* times removes the four copies, appends the meld and draws replacement   *)
(* tiles from the head of the back wall and, once that is empty, from the  *)
(* head of the draw wall, until a tile that is no flower is drawn: the     *)
(* flowers drawn go to the flower area and that one tile to the hand.      *)
(* When both walls run out first, no tile is added to the hand and the     *)
(* phase is draw.  The current player is unchanged and no other player's   *)
(* hand, melds, flowers or discards change.                                *)
(***************************************************************************)
C18_ConcealedKongFrame ==
  [][(phase = "play" /\ Stepped /\ last_step'.type = "concealed_kong")
     => LET R == wall_back \o wall
            k == FirstPlain(R)
            nb == Len(wall_back)
            p == current_player
            t == last_step'.tile
        IN IF k > 0
           THEN /\ KongTaken(p, t, R, k)
                /\ wall_back' = SubSeq(wall_back, k + 1, nb)
                /\ wall' = (IF k <= nb THEN wall
                            ELSE SubSeq(wall, k - nb + 1, Len(wall)))
                /\ phase' = "play"
           ELSE /\ players'[p].hand = RemoveN(players[p].hand, t, 4)
                /\ players'[p].flowers = players[p].flowers \o R
                /\ Len(players'[p].melds) = Len(players[p].melds) + 1
                /\ \A q \in Seats \ {p} : players'[q] = players[q]
                /\ wall_back' = <<>> /\ wall' = <<>>
                /\ current_player' = p
                /\ phase' = "draw"]_vars

\* A concealed kong declared when the back wall was down to its last tiles:
\* the kong is the declarer's newest meld, the replacement draw has emptied
\* the back wall and has ended on a tile that is no flower.
C18_Witness ==
  /\ phase = "play" /\ last_step.type = "concealed_kong"
  /\ last_action = "replacement_draw" /\ after_kong
  /\ LET ms == players[current_player].melds
     IN ms # <<>> /\ ms[Len(ms)].type = "concealed_kong"
                 /\ ms[Len(ms)].tiles[1] = last_step.tile
  /\ Count(players[current_player].hand, last_step.tile) = 0
  /\ wall_back = <<>>

(***************************************************************************)
(* C15 (as stated): when a player holds all eight flowers at the end of    *)
(* the deal's flower replacement, start_hand does not enter phase play (it *)
(* ends in the terminal win 配牌花胡 instead).                             *)
(***************************************************************************)
C15_PeipaiFlowerHu ==
  (\E p \in Seats : check_peipai_flower_hu(S, p)) => phase # "play"

(***************************************************************************)
(* C16: flower_replacement never draws from an empty back wall and comes   *)
(* to its end: every step of start_hand lowers DealRank, and a step is     *)
(* possible until the phase is play.  Pass number k of its loop handles    *)
(* player (dealer + k) mod 4 and nobody else: afterwards that hand holds   *)
(* no flower and is as long as before, the flowers it held are in that     *)
(* player's flower area, and the tiles taken from the head of the back     *)
(* wall are the flowers and plain tiles that player gained.  In phase play *)
(* no hand contains a flower, the dealer holds 17 tiles and the others 16. *)
(***************************************************************************)
DealRank ==
  IF phase = "deal" THEN (IF wall = <<>> THEN 7 ELSE 6)
  ELSE IF phase = "flower_replacement" THEN 5 - replaced
  ELSE 0

FlowersIn(hand) == {t \in FLOWERS : Contains(hand, t)}

HandFlowers(p) == FlowersIn(players[p].hand)

FlowersDone ==
  /\ exc = "none"
  /\ replaced \in 0..4
  /\ phase = "flower_replacement" =>
       \A k \in 0..(replaced - 1) : HandFlowers((dealer_index + k) % 4) = {}
  /\ phase = "play" =>
       /\ replaced = 4
       /\ \A p \in Seats :
            /\ HandFlowers(p) = {}
            /\ Len(players[p].hand) = (IF p = dealer_index THEN 17 ELSE 16)

C16_FlowerReplacement ==
  /\ []FlowersDone
  /\ [][/\ DealRank' < DealRank
        /\ (phase = "flower_replacement" /\ replaced' = replaced + 1) =>
             LET p == (dealer_index + replaced) % 4
                 drawn == Len(wall_back) - Len(wall_back')
                 gained == Len(players'[p].flowers) - Len(players[p].flowers)
             IN /\ FlowersIn(players'[p].hand) = {}
                /\ Len(players'[p].hand) = Len(players[p].hand)
                /\ HandFlowers(p) \subseteq ToSet(players'[p].flowers)
                /\ drawn = gained
                /\ wall_back' = SubSeq(wall_back, drawn + 1, Len(wall_back))
                /\ \A i \in 1..drawn :
                     \/ Contains(players'[p].flowers, wall_back[i])
                     \/ Contains(players'[p].hand, wall_back[i])
                /\ \A q \in Seats \ {p} : players'[q] = players[q]
                /\ wall' = wall]_vars

\* All eight flowers have come out in the deal, to at least two players, so
\* eight replacement tiles have been drawn.
C16_Witness ==
  /\ phase = "play" /\ exc = "none"
  /\ Len(wall_back) = RESERVED_COUNT - 8
  /\ Cardinality({p \in Seats : players[p].flowers # <<>>}) >= 2

(***************************************************************************)
(* C17: deal_initial_hands takes 65 tiles from the head of the draw wall:  *)
(* the player at place i of the order dealer, dealer+1, dealer+2, dealer+3 *)
(* gets, in round r = 0..3, the four consecutive tiles 16r+4i+1..16r+4i+4, *)
(* and the dealer gets tile 65 as its 17th; the draw wall loses exactly    *)
(* those 65 tiles and the back wall is untouched.                          *)
(***************************************************************************)
C17_DealOrder ==
  [][(phase = "deal" /\ phase' # "deal")
     => /\ \A i \in 0..3 :
             players'[(dealer_index + i) % 4].hand
               = [j \in 1..(IF i = 0 THEN 17 ELSE 16) |->
                    IF j = 17 THEN wall[65]
                    ELSE wall[16 * ((j - 1) \div 4) + 4 * i + ((j - 1) % 4) + 1]]
        /\ Len(wall') = Len(wall) - 65
        /\ wall' = SubSeq(wall, 66, Len(wall))
        /\ wall_back' = wall_back]_vars

\* The hands have just been dealt and the dealer's 17th tile is a flower.
C17_Witness ==
  /\ phase = "flower_replacement" /\ replaced = 0
  /\ Len(players[dealer_index].hand) = 17
  /\ is_flower_tile(players[dealer_index].hand[17])
  /\ Len(wall) = 144 - RESERVED_COUNT - 65

(***************************************************************************)
(* C19: serialize_game_state(gs, viewer, reveal_all = False) gives None    *)
(* for the hand of every player other than the viewer, and gives the same  *)
(* result for the session and for every session that differs from it in    *)
(* one tile of another player's hand, of the draw wall or of the back wall *)
(* (any two sessions that differ only in the contents, not the sizes, of   *)
(* those lists are joined by a chain of such replacements).  The tiles     *)
(* tried are 1m, B and f1, at the first and the last place of each list.   *)
(***************************************************************************)
OtherTiles == {MkTile(1, 0), 36, 41}

Ends(seq) == {i \in DOMAIN seq : i = 1 \/ i = Len(seq)}

HiddenVariants(s, viewer_idx) ==
  UNION {
    UNION {{[s EXCEPT !.players[q].hand[i] = t] : i \in Ends(s.players[q].hand)} :
             q \in Seats \ {viewer_idx}}
    \cup {[s EXCEPT !.wall[i] = t] : i \in Ends(s.wall)}
    \cup {[s EXCEPT !.wall_back[i] = t] : i \in Ends(s.wall_back)}
    : t \in OtherTiles}

C19_HiddenFromViewer ==
  \A viewer_idx \in Seats :
    LET out == serialize_game_state(S, viewer_idx, FALSE)
    IN /\ \A i \in Seats \ {viewer_idx} : out.players[i].hand = HiddenHand
       /\ \A v \in HiddenVariants(S, viewer_idx) :
            serialize_game_state(v, viewer_idx, FALSE) = out

\* A claim window in which some replacement in an opponent's hand and some
\* replacement in the draw wall would each show with reveal_all = True or
\* in wall contents.
C19_Witness ==
  /\ phase = "play" /\ sub_phase = "claim" /\ wall # <<>>
  /\ \E v \in HiddenVariants(S, 0) :
       /\ v.wall = wall
       /\ serialize_game_state(v, 0, TRUE) # serialize_game_state(S, 0, TRUE)
  /\ \E v \in HiddenVariants(S, 0) : v.wall # wall

(***************************************************************************)
(* C20: in inspect mode the loop of _run_ai_turns ends in phase win or     *)
(* draw before its 500 iterations are used up.  While the phase is play an *)
(* iteration is always possible (the current seat's AI has an action to    *)
(* step, or the claim window is resolved), it raises nothing and makes at  *)
(* least one step() call; every iteration lowers Rank, and step() calls    *)
(* made plus Rank never exceed 500, so fewer than 500 iterations fit.      *)
(***************************************************************************)
InspectIterations ==
  IF sub_phase = "claim" THEN handle_claim_phase_inspect(M)
  ELSE {append_event(session_step(M, a), a.type, current_player, a.tile) :
          a \in choose_action(S, current_player,
                              get_legal_actions(S, current_player))}

InspectProgress ==
  mode = "inspect" =>
    /\ exc = "none"
    /\ nsteps + Rank <= max_moves
    /\ phase \in {"play", "win", "draw"}
    /\ phase = "play" =>
         /\ Rank >= 1
         /\ InspectIterations # {}
         /\ \A r \in InspectIterations : r.n > nsteps /\ r.s.exc = "none"

C20_InspectTerminates ==
  /\ []InspectProgress
  /\ [][(mode = "inspect" /\ nsteps' # nsteps)
        => (nsteps' > nsteps /\ Rank' < Rank)]_vars

\* An inspect-mode hand that the AI loop has played to its end.
C20_Witness ==
  /\ mode = "inspect" /\ phase \in {"win", "draw"}
  /\ nsteps > ManagerLate.nsteps /\ nsteps < max_moves
  /\ last_event.event \in {"win", "draw"}

(***************************************************************************)
(* C30: a chi, pong or open_kong step taken from player p's legal-action   *)
(* list changes no player but p.  The seat the session picks (the next     *)
(* seat for chi, the first seat counter-clockwise from the discarder that  *)
(* holds two, or three, copies otherwise) is p.  p's hand loses exactly    *)
(* the tiles that complete the meld with the pending discard: the two      *)
(* other tiles of the run, two copies of the discard, or three copies for  *)
(* open_kong (whose replacement draw then appends one tile, unless the     *)
(* walls ran out).  p gains one meld with from_player the discarder and    *)
(* becomes the current player.                                             *)
(***************************************************************************)
\* How many copies of t the list combo holds beyond one copy of discard.
NeededFromHand(combo, discard, t) ==
  Count(combo, t) - (IF t = discard THEN 1 ELSE 0)

C30_ClaimFrame ==
  [][(phase = "play" /\ sub_phase = "claim" /\ Stepped
        /\ last_step'.type \in {"chi", "pong", "open_kong"})
     => LET a == last_step'
            p == a.player_idx
            d == pending_discard
            tiles == CASE a.type = "chi" -> a.combo
                       [] a.type = "pong" -> <<d, d, d>>
                       [] OTHER -> <<d, d, d, d>>
            picked == CASE a.type = "chi" -> (pending_discarder + 1) % 4
                        [] a.type = "pong" -> find_claimer(S, d, 2)
                        [] OTHER -> find_claimer(S, d, 3)
            before == players[p].hand
            after == players'[p].hand
            drawn == Len(after) - (Len(before) - (Len(tiles) - 1))
        IN /\ p \in Seats /\ a \in get_legal_actions(S, p)
           /\ a.tile = d
           /\ picked = p
           /\ current_player' = p
           /\ \A q \in Seats \ {p} : players'[q] = players[q]
           /\ players'[p].melds
                = Append(players[p].melds,
                         [type |-> a.type, tiles |-> tiles,
                          from_player |-> pending_discarder])
           /\ players'[p].discards = players[p].discards
           /\ drawn = (IF a.type = "open_kong" /\ phase' = "play" THEN 1 ELSE 0)
           /\ \A t \in AllTiles :
                Count(SubSeq(after, 1, Len(after) - drawn), t)
                  = Count(before, t) - NeededFromHand(tiles, d, t)
           /\ exc' = "none"]_vars

\* A pong has just been made by a seat that is not next to the discarder.
C30_Witness ==
  /\ phase = "play" /\ last_step.type = "pong" /\ last_action = "pong"
  /\ current_player = last_step.player_idx
  /\ LET ms == players[current_player].melds
     IN /\ ms # <<>>
        /\ ms[Len(ms)].type = "pong"
        /\ ms[Len(ms)].from_player \in Seats
        /\ current_player # (ms[Len(ms)].from_player + 1) % 4

(***************************************************************************)
(* C29: shuffle_and_build_wall(deck) on the 144-tile deck returns a draw   *)
(* wall of 128 tiles and a back wall of 16 tiles (the first 128 and the    *)
(* last 16 of the shuffled order) which together hold every tile as often  *)
(* as the deck does, and leaves the caller's deck list as it was.          *)
(***************************************************************************)
C29_ShuffleAndBuildWall ==
  [][(phase = "deal" /\ wall = <<>> /\ wall' # <<>>)
     => /\ Len(deck) = 144
        /\ \A t \in AllTiles : Count(deck, t) = DeckCount(t)
        /\ Len(wall') = 144 - RESERVED_COUNT
        /\ Len(wall_back') = RESERVED_COUNT
        /\ \A t \in AllTiles : Count(wall' \o wall_back', t) = Count(deck, t)
        /\ deck' = deck]_vars

\* The walls have just been built and are not in the order of the deck.
C29_Witness ==
  /\ phase = "deal" /\ Len(deck) = 144 /\ Len(wall) = 144 - RESERVED_COUNT
  /\ wall \o wall_back # deck
  /\ players[dealer_index].hand = <<>>


\* The sum of the tai of a yaku list.
TaiSum(yaku) == Sum([i \in DOMAIN yaku |-> yaku[i][2]], DOMAIN yaku)

(***************************************************************************)
(* C21: for every input, score_hand reports as subtotal the sum of the     *)
(* awarded tai (1 when that sum is 0) and total = min(subtotal, 81), so    *)
(* total <= 81, whatever the dealer's streak and the special-condition     *)
(* flags.                                                                  *)
(***************************************************************************)
C21_TotalCapped ==
  result.fn = "score_hand"
  => /\ result.subtotal = (IF TaiSum(result.yaku) = 0 THEN 1 ELSE TaiSum(result.yaku))
     /\ result.total = Min(result.subtotal, 81)
     /\ result.total <= 81

\* A hand scored with a streak of 100 and at least three flags: the awards
\* exceed the cap and the total is 81.
C21_Witness ==
  /\ result.fn = "score_hand"
  /\ args.gs.players[args.gs.dealer_index].streak = 100
  /\ Cardinality(args.flags) >= 3
  /\ TaiSum(result.yaku) > 81
  /\ result.total = 81

(***************************************************************************)
(* C22: with L the dealer's streak, on a self-draw win each of the three   *)
(* non-winners pays total + L; on a discard win the discarder pays         *)
(* total + L and every other non-winner pays L; the winner's entry is the  *)
(* negation of the sum of the other three, so the entries sum to 0.        *)
(***************************************************************************)
C22_Payments ==
  result.fn = "score_hand"
  => LET L == args.gs.players[args.gs.dealer_index].streak
         w == args.winner_idx
         pay == result.payments
     IN /\ DOMAIN pay = Seats
        /\ \A i \in Seats \ {w} :
             pay[i] = IF args.win_type = "self_draw" \/ i = args.discarder_idx
                      THEN result.total + L ELSE L
        /\ pay[w] = 0 - Sum(pay, Seats \ {w})
        /\ Sum(pay, Seats) = 0

\* A discard win under a running streak: the discarder has paid more than
\* the streak, the two others the streak alone.
C22_Witness ==
  /\ result.fn = "score_hand"
  /\ args.win_type = "discard"
  /\ args.discarder_idx \in Seats \ {args.winner_idx}
  /\ args.gs.players[args.gs.dealer_index].streak = 3
  /\ \A i \in Seats \ {args.winner_idx, args.discarder_idx} : result.payments[i] = 3
  /\ result.payments[args.discarder_idx] > 3

\* Scenario C: the hand of test_duiduihu_4tai won on a discard of 5m from
\* seat 2 by seat 1, dealer seat 0 without streak, round wind E, no flowers,
\* no flags; it has been scored.
ScenarioC ==
  /\ result.fn = "score_hand"
  /\ args.hand = DuiduihuHand.hand /\ args.win_tile = 5 /\ args.melds = <<>>
  /\ args.flowers = <<>> /\ args.flags = {}
  /\ args.win_type = "discard" /\ args.discarder_idx = 2 /\ args.winner_idx = 1
  /\ args.gs = make_gs(0, 0, 30)

(***************************************************************************)
(* C23 (as stated): Scenario C yields a yaku list with duiduihu at 4 tai   *)
(* and the payment map {1: -4, 2: 4, 0: 0, 3: 0}.                          *)
(***************************************************************************)
C23_ScenarioC_Pays4 ==
  ScenarioC
  => /\ \E i \in DOMAIN result.yaku : result.yaku[i] = <<"duiduihu", 4>>
     /\ result.payments = (0 :> 0 @@ 1 :> (0 - 4) @@ 2 :> 4 @@ 3 :> 0)

(***************************************************************************)
(* C23: Scenario C yields the yaku list sianke 5, duiduihu 4, menqing 1,   *)
(* which contains duiduihu at 4 tai; the total is 10 and the payment map   *)
(* is {1: -10, 2: 10, 0: 0, 3: 0}.                                         *)
(***************************************************************************)
C23_ScenarioC ==
  ScenarioC
  => /\ result.yaku = << <<"sianke", 5>>, <<"duiduihu", 4>>, <<"menqing", 1>> >>
     /\ result.total = 10
     /\ result.payments = (0 :> 0 @@ 1 :> (0 - 10) @@ 2 :> 10 @@ 3 :> 0)

\* Scenario C has been scored, from the decomposition into five triplets.
C23_Witness ==
  /\ ScenarioC
  /\ args.decomp = decompose_hand(Append(args.hand, args.win_tile), args.melds)
  /\ Len((CHOOSE x \in args.decomp : TRUE).sets) = 5
  /\ \A i \in 1..5 : is_triplet((CHOOSE x \in args.decomp : TRUE).sets[i])

(***************************************************************************)
(* decompose_hand and is_standard_win                                      *)
(***************************************************************************)
\* The number of copies of every tile of the 34 types in hand.
BagOf(hand) == [t \in NumberTiles \cup HONORS |-> Count(hand, t)]

\* bag is the union of n sets, each three copies of one tile or a run
\* t, t+1, t+2 of one number suit; the sets are listed by their lowest tile,
\* from the tile from on.
RECURSIVE CanSplit(_, _, _)
CanSplit(bag, n, from) ==
  IF n = 0 THEN \A t \in DOMAIN bag : bag[t] = 0
  ELSE \E t \in {u \in DOMAIN bag : u >= from /\ bag[u] > 0} :
         \/ /\ bag[t] >= 3
            /\ CanSplit([bag EXCEPT ![t] = @ - 3], n - 1, t)
         \/ /\ t \in NumberTiles /\ t % 10 <= 7
            /\ bag[t + 1] > 0 /\ bag[t + 2] > 0
            /\ CanSplit([bag EXCEPT ![t] = @ - 1, ![t + 1] = @ - 1, ![t + 2] = @ - 1],
                        n - 1, t)

\* hand is n sets and one pair of equal tiles.
Partitionable(hand, n) ==
  /\ ToSet(hand) \subseteq NumberTiles \cup HONORS
  /\ \E p \in ToSet(hand) :
       /\ Count(hand, p) >= 2
       /\ CanSplit([BagOf(hand) EXCEPT ![p] = @ - 2], n, 0)

\* C24: decompose_hand returns a decomposition, and is_standard_win returns
\* true, exactly when the hand is 5 - k sets (triplets or runs of one number
\* suit) and one pair, k the number of melds; decompose_hand returns None for
\* every hand that does not have 3 * (5 - k) + 2 tiles.
C24_DecomposeIffPartitionable ==
  LET n == 5 - Len(args.melds)
  IN /\ result.fn = "decompose_hand" =>
          /\ (result.value # {}) <=> Partitionable(args.hand, n)
          /\ Len(args.hand) # 3 * n + 2 => result.value = {}
     /\ result.fn = "is_standard_win" =>
          (result.value <=> Partitionable(args.hand, n))

\* decompose_hand found the sets and the pair of an unsorted hand that goes
\* with three melds, the pair not being the first pair of the sorted hand.
C24_Witness ==
  /\ result.fn = "decompose_hand"
  /\ result.value # {}
  /\ Len(args.melds) = 3
  /\ args.hand # sorted(args.hand)
  /\ \E d \in result.value : \E i \in 1..(Len(args.hand) - 1) :
       /\ sorted(args.hand)[i] = sorted(args.hand)[i + 1]
       /\ tile_sort_key(sorted(args.hand)[i]) < tile_sort_key(d.pair[1])

\* The tiles of a decomposition: those of its sets, then the pair.
RECURSIVE concat(_)
concat(seqs) == IF seqs = <<>> THEN <<>> ELSE Head(seqs) \o concat(Tail(seqs))

TilesOf(d) == concat(d.sets) \o d.pair

SameTiles(a, b) == \A t \in ToSet(a) \cup ToSet(b) : Count(a, t) = Count(b, t)

\* C25: decompose_hand leaves the list it is given as it was, and what it
\* returns has 5 - len(melds) sets whose tiles, with the two tiles of the
\* pair, are the tiles of the hand.
C25_Roundtrip ==
  [][result'.fn = "decompose_hand" =>
       /\ args'.hand = args.hand
       /\ \A d \in result'.value :
            /\ Len(d.sets) = 5 - Len(args.melds)
            /\ Len(d.pair) = 2
            /\ SameTiles(TilesOf(d), args.hand)]_vars

\* decompose_hand returned five sets and a pair for a 17-tile hand that was
\* not sorted when it was passed.
C25_Witness ==
  /\ result.fn = "decompose_hand"
  /\ args.melds = <<>>
  /\ args.hand # sorted(args.hand)
  /\ \E d \in result.value : Len(d.sets) = 5 /\ SameTiles(TilesOf(d), args.hand)

(***************************************************************************)
(* shanten_number and tenpai_tiles                                         *)
(***************************************************************************)
\* A hand a player can hold with the melds a.melds: 3 * (5 - k) + 1 or
\* 3 * (5 - k) + 2 tiles, none a flower, at most four of a type.
Holdable(a) ==
  /\ a.fn = "hand"
  /\ Len(a.hand) - 3 * (5 - Len(a.melds)) \in {1, 2}
  /\ \A t \in ToSet(a.hand) : t \in NumberTiles \cup HONORS /\ Count(a.hand, t) <= 4

\* C26 as stated: shanten_number is between -1 and 8.
C26_ShantenAtMost8 ==
  Holdable(args) /\ result.fn = "shanten_number" => result.value \in -1..8

\* C26: shanten_number is between -1 and 2 * (5 - k), k the number of
\* melds, which is 10 for a hand without melds.
C26_ShantenRange ==
  Holdable(args) /\ result.fn = "shanten_number" =>
    result.value \in -1..(2 * (5 - Len(args.melds)))

\* 16 tiles without melds, no two of them equal, adjacent or one apart:
\* shanten_number is 10.
C26_Witness ==
  /\ result.fn = "shanten_number"
  /\ Holdable(args)
  /\ args.hand = IsolatedHand
  /\ args.melds = <<>>
  /\ result.value = 10

\* C27: shanten_number is -1 exactly when is_standard_win is true, and the
\* search leaves the count vector as it was built from the hand.
C27_MinusOneIffWin ==
  Holdable(args) /\ result.fn = "shanten_number" =>
    /\ (result.value = -1) <=> is_standard_win(args.hand, args.melds)
    /\ result.counts = hand_to_counts(args.hand)

\* shanten_number returned -1 for a winning 17-tile hand with four tiles of
\* each of four types, and the counts are those of the hand.
C27_Witness ==
  /\ result.fn = "shanten_number"
  /\ Holdable(args)
  /\ Len(args.hand) = 17
  /\ \E t \in ToSet(args.hand) : Count(args.hand, t) = 4
  /\ is_standard_win(args.hand, args.melds)
  /\ result.value = -1
  /\ result.counts = hand_to_counts(args.hand)

\* What C28 says of a call of tenpai_tiles.
TenpaiAsSpecified ==
  IF shanten_number(args.hand, args.melds) = 0
  THEN /\ result.value # <<>>
       /\ \A i \in DOMAIN result.value :
            shanten_number(Append(args.hand, result.value[i]), args.melds) = -1
  ELSE result.value = <<>>

\* C28 as stated: for every hand a player can hold, of 3 * (5 - k) + 1 or of
\* 3 * (5 - k) + 2 tiles.
C28_TenpaiAnyHand ==
  Holdable(args) /\ result.fn = "tenpai_tiles" => TenpaiAsSpecified

\* C28: for a hand of 3 * (5 - k) + 1 tiles, if shanten_number is 0 then
\* tenpai_tiles is not empty and every tile it returns brings shanten_number
\* to -1; if shanten_number is not 0 tenpai_tiles is empty.
C28_TenpaiBeforeDraw ==
  /\ Holdable(args)
  /\ Len(args.hand) = 3 * (5 - Len(args.melds)) + 1
  /\ result.fn = "tenpai_tiles"
  => TenpaiAsSpecified

\* tenpai_tiles of the 16 tiles 1m to 4m four times each: 1m to 5m.
C28_Witness ==
  /\ result.fn = "tenpai_tiles"
  /\ args.hand = FourOfEachHand
  /\ args.melds = <<>>
  /\ shanten_number(args.hand, args.melds) = 0
  /\ result.value = <<1, 2, 3, 4, 5>>

(***************************************************************************)
(* C31 (as stated): in a claim window handled with a human seat, whenever  *)
(* the human has a legal chi, pong, open_kong or win on the pending        *)
(* discard and the window ends without a claim being executed, the manager *)
(* was waiting for the human: the human's pass is the human's own, never   *)
(* one _pass_all submitted for them.                                       *)
(***************************************************************************)
HumanCanClaim ==
  \E a \in get_legal_actions(S, human_seat) : a.type # "pass"

C31_HumanNotAutoPassed ==
  [][(mode # "inspect" /\ phase = "play" /\ sub_phase = "claim" /\ HumanCanClaim
        /\ nsteps' > nsteps /\ last_step'.type = "pass")
     => AwaitingHuman]_vars

(***************************************************************************)
(* C32 (as stated): after a legal step that leaves the hand in play the    *)
(* after-kong flag is true exactly when the step was a kong declaration    *)
(* (open, added or concealed), whose replacement tile the current player   *)
(* has just received; a draw step leaves it false, also when the tile      *)
(* drawn was a flower replaced from the back wall, and a discard resets    *)
(* it.                                                                     *)
(***************************************************************************)
C32_AfterKongFlag ==
  [][(phase = "play" /\ Stepped /\ phase' = "play")
     => (after_kong' <=> last_step'.type \in KongTypes)]_vars

(***************************************************************************)
(* C33: in an active turn the current player's legal actions are exactly   *)
(* the one draw action when the just-drew flag is false and the hand has   *)
(* at most 16 tiles, and hold no draw action when the flag is true; a draw *)
(* step is only taken with the flag false and sets it unless the hand      *)
(* ends, so no player draws twice without discarding in between, and a     *)
(* discard step is only taken by a player whose hand and melds (three      *)
(* tiles each) make 17 tiles.                                              *)
(***************************************************************************)
Held(p) == Len(players[p].hand) + 3 * Len(players[p].melds)

OwesTile == ~just_drew /\ Len(players[current_player].hand) <= 16

DrawOrAct ==
  (phase = "play" /\ sub_phase = "active_turn") =>
    /\ OwesTile =>
         get_legal_actions(S, current_player) = {Action("draw", None, <<>>, None)}
    /\ just_drew =>
         \A a \in get_legal_actions(S, current_player) : a.type # "draw"

C33_DrawThenDiscard ==
  /\ []DrawOrAct
  /\ [][(phase = "play" /\ Stepped) =>
          /\ last_step'.type = "draw" => ~just_drew /\ (just_drew' \/ phase' = "draw")
          /\ last_step'.type = "discard" => just_drew /\ Held(current_player) = 17]_vars

\* The current player has taken a tile after a claim window in which all
\* passed, and holds melds: it has at most 16 tiles in hand and no draw
\* among its legal actions.
C33_Witness ==
  /\ phase = "play" /\ sub_phase = "active_turn"
  /\ last_step.type = "draw" /\ just_drew
  /\ players[current_player].melds # <<>>
  /\ \E a \in get_legal_actions(S, current_player) : a.type = "discard"

(***************************************************************************)
(* C34: in every play state reached by legal steps somebody has a legal    *)
(* action: the current player in an active turn, and in a claim window a   *)
(* player who is not the discarder and has not passed.                     *)
(***************************************************************************)
C34_SomeoneCanAct ==
  phase = "play" =>
    /\ sub_phase = "active_turn" => get_legal_actions(S, current_player) # {}
    /\ sub_phase = "claim" =>
         \E q \in Seats \ ({pending_discarder} \cup passed_players) :
           get_legal_actions(S, q) # {}

\* A claim window in which two players have passed: the third can still act.
C34_Witness ==
  /\ phase = "play" /\ sub_phase = "claim"
  /\ Cardinality(passed_players) = 2
  /\ \E q \in Seats \ ({pending_discarder} \cup passed_players) :
       get_legal_actions(S, q) # {}

(***************************************************************************)
(* C35: in every play state reached by legal steps the sub-phase is claim  *)
(* exactly when a pending discard and a pending discarder are set; in a    *)
(* claim window the pending discarder is the current player, the pending   *)
(* discard is last_discard and the last tile of the discard pool, and at   *)
(* most two players have passed, the discarder not among them; in an       *)
(* active turn nobody has passed.                                          *)
(***************************************************************************)
C35_ClaimBookkeeping ==
  phase = "play" =>
    /\ sub_phase = "claim" <=> (pending_discard # None /\ pending_discarder # None)
    /\ sub_phase = "claim" =>
         /\ pending_discarder = current_player
         /\ pending_discard = last_discard
         /\ discard_pool # <<>>
         /\ discard_pool[Len(discard_pool)] = pending_discard
         /\ Cardinality(passed_players) <= 2
         /\ pending_discarder \notin passed_players
    /\ sub_phase = "active_turn" => passed_players = {}

\* A claim window in which two players have passed: the discard is pending,
\* it is the last tile of the pool, and its discarder is the current player.
C35_Witness ==
  /\ phase = "play" /\ sub_phase = "claim"
  /\ Cardinality(passed_players) = 2
  /\ pending_discarder = current_player
  /\ pending_discard = discard_pool[Len(discard_pool)]


(***************************************************************************)
(* C36: under a legal driver no tile is duplicated or lost apart from      *)
(* claimed discards being recorded twice.  One tile can be chosen in every *)
(* meld that records a from_player (chi, pong, open_kong, added_kong) so   *)
(* that, with the chosen copies taken out, every tile lies in the hands,   *)
(* melds, flower areas, discard pool and walls exactly as often as in the  *)
(* 144-tile deck; and the total count is 144 plus the number of those      *)
(* melds.                                                                  *)
(***************************************************************************)
\* The melds that record a from_player, as (seat, index) pairs.
ClaimedMeldSet ==
  {m \in Seats \X (1..8) :
     /\ m[2] \in DOMAIN players[m[1]].melds
     /\ players[m[1]].melds[m[2]].from_player # None}

\* How often tile t lies in the six places beyond its copies in the deck.
Excess == [t \in AllTiles |-> Occurrences(t) - DeckCount(t)]

\* One tile can be taken out of every meld of ms so that exactly the surplus
\* copies counted in excess are removed.
RECURSIVE RemovesExcess(_, _)
RemovesExcess(ms, excess) ==
  IF ms = {} THEN \A t \in DOMAIN excess : excess[t] = 0
  ELSE LET m == CHOOSE x \in ms : TRUE
           tiles == players[m[1]].melds[m[2]].tiles
       IN \E t \in ToSet(tiles) :
            /\ excess[t] > 0
            /\ RemovesExcess(ms \ {m}, (t :> (excess[t] - 1)) @@ excess)

C36_ClaimedTilesTwice ==
  /\ RemovesExcess(ClaimedMeldSet, Excess)
  /\ TotalTiles = 144 + Cardinality(ClaimedMeldSet)

\* A pong made from a discard has been upgraded to an added kong and still
\* records the discarder: its tile is counted five times, four in the meld
\* and once in the discard pool.
C36_Witness ==
  \E m \in ClaimedMeldSet :
    LET meld == players[m[1]].melds[m[2]]
    IN /\ meld.type = "added_kong"
       /\ Occurrences(meld.tiles[1]) = 5
       /\ Contains(discard_pool, meld.tiles[1])


(***************************************************************************)
(* C37: in every state reached from start_hand by legal steps no hand,     *)
(* meld, discard list or discard-pool entry is a flower, and the four      *)
(* flower areas together hold each of the 8 flowers at most once; a flower *)
(* that leaves the walls in a step lies in the flower area of the player   *)
(* who drew it, and a draw that leaves the hand in play has put a          *)
(* non-flower tile into the drawer's hand.                                 *)
(***************************************************************************)
NoFlowerIn(seq) == \A i \in DOMAIN seq : ~is_flower_tile(seq[i])

FlowersSetAside ==
  /\ \A p \in Seats :
       /\ NoFlowerIn(players[p].hand)
       /\ NoFlowerIn(players[p].discards)
       /\ \A i \in DOMAIN players[p].melds : NoFlowerIn(players[p].melds[i].tiles)
  /\ NoFlowerIn(discard_pool)
  /\ \A f \in FLOWERS : Sum([p \in Seats |-> Count(players[p].flowers, f)], Seats) <= 1

InWalls(f) == Contains(wall, f) \/ Contains(wall_back, f)

C37_FlowersSetAside ==
  /\ []FlowersSetAside
  /\ [][(phase = "play" /\ Stepped) =>
          /\ \A f \in FLOWERS :
               (InWalls(f) /\ ~InWalls(f)') =>
                 /\ ~Contains(players[current_player'].flowers, f)
                 /\ Contains(players'[current_player'].flowers, f)
          /\ (last_step'.type = "draw" /\ phase' = "play") =>
               /\ Len(players'[current_player].hand) = Len(players[current_player].hand) + 1
               /\ NoFlowerIn(players'[current_player].hand)]_vars

\* A draw step has just taken a flower off the wall: the drawer's flower
\* area holds it and the hand was filled from the back wall.
C37_Witness ==
  /\ phase = "play" /\ last_step.type = "draw" /\ last_action = "replacement_draw"
  /\ players[current_player].flowers # <<>>
  /\ NoFlowerIn(players[current_player].hand)
  /\ Len(players[current_player].hand) + 3 * Len(players[current_player].melds) = 17


(***************************************************************************)
(* C38: in every play state reached by legal steps every player has        *)
(* |hand| + 3*(melds, a kong counted as 3) equal to 16 or 17; it is 17 for *)
(* at most one player, and only for the current player in an active turn   *)
(* with the just-drew flag set; in a claim window, and while the current   *)
(* player still owes a draw, it is 16 for everyone; each player has at     *)
(* most 5 melds and a non-empty hand.                                      *)
(***************************************************************************)
Seventeen == {p \in Seats : Held(p) = 17}

C38_SixteenOrSeventeen ==
  phase = "play" =>
    /\ \A p \in Seats :
         /\ Held(p) \in {16, 17}
         /\ Len(players[p].melds) <= 5
         /\ players[p].hand # <<>>
    /\ Cardinality(Seventeen) <= 1
    /\ Seventeen # {} =>
         /\ Seventeen = {current_player}
         /\ sub_phase = "active_turn"
         /\ just_drew
    /\ (sub_phase = "claim" \/ ~just_drew) => Seventeen = {}

\* A player with four melds has just claimed a fifth and holds two tiles;
\* nobody else holds 17.
C38_Witness ==
  /\ phase = "play" /\ sub_phase = "active_turn" /\ just_drew
  /\ Len(players[current_player].melds) = 5
  /\ Len(players[current_player].hand) = 2
  /\ Seventeen = {current_player}


(***************************************************************************)
(* C39: under a driver that submits only legal actions every claim window  *)
(* ends within three steps of the discard that opened it.  A step inside a *)
(* window is made by a player who is not the discarder and has not passed; *)
(* it is a pass, which adds the player to the passed players and leaves    *)
(* the window open while fewer than three have passed and closes it with   *)
(* the third, or it is a chi, pong, open_kong or win, which closes the     *)
(* window at once.  At most two players have passed in an open window, so  *)
(* the window is closed by its third step at the latest.                   *)
(***************************************************************************)
WindowOpen == phase = "play" /\ sub_phase = "claim"

C39_WindowClosesInThree ==
  /\ [](WindowOpen => Cardinality(passed_players) <= 2)
  /\ [][(phase = "play" /\ Stepped /\ last_step'.type = "discard")
          => (WindowOpen' => passed_players' = {})]_vars
  /\ [][(WindowOpen /\ Stepped) =>
          /\ last_step'.player_idx \in Seats \ (passed_players \cup {pending_discarder})
          /\ \/ /\ last_step'.type = "pass"
                /\ IF Cardinality(passed_players) < 2
                   THEN /\ WindowOpen'
                        /\ passed_players' = passed_players \cup {last_step'.player_idx}
                        /\ Cardinality(passed_players') = Cardinality(passed_players) + 1
                        /\ pending_discard' = pending_discard
                        /\ pending_discarder' = pending_discarder
                   ELSE ~WindowOpen'
             \/ /\ last_step'.type \in {"chi", "pong", "open_kong", "win"}
                /\ ~WindowOpen'
                /\ last_step'.type # "win" => current_player' = last_step'.player_idx]_vars

\* The third step of a window: two players have passed and the third one
\* can still claim the discard or pass.
C39_Witness ==
  /\ WindowOpen /\ Cardinality(passed_players) = 2 /\ last_step.type = "pass"
  /\ \E q \in Seats \ (passed_players \cup {pending_discarder}) :
       \E a \in get_legal_actions(S, q) : a.type \in {"chi", "pong", "open_kong", "win"}

=============================================================================
